---- MODULE Spec2Model ----
(***************************************************************************)
(* Order processing of the food-delivery backend: the order routes         *)
(* (routes/orders.js), the Order model (models/Order.js) and the parts of  *)
(* the MenuItem and Restaurant models they read and write.                 *)
(*                                                                         *)
(* Every request handler is an async function: it runs without             *)
(* interruption between two awaits, and other requests' steps may run at   *)
(* every await.  One action of this module is one such uninterrupted       *)
(* piece: the database operation the handler was waiting for, followed by  *)
(* the synchronous code up to the next await.                              *)
(*                                                                         *)
(* A handler works on its own in-memory copy of a document (req[r].doc,    *)
(* .mdocs, .rdoc); document.save() then writes the paths modified in that  *)
(* copy ($set) and the array elements pushed onto it ($push) to the stored *)
(* document in one atomic update, with no check that the stored document   *)
(* is still the one that was loaded.                                       *)
(*                                                                         *)
(* A request record keeps what the handler still needs, and, once the      *)
(* response is sent, what identifies the request and its outcome.          *)
(*                                                                         *)
(* Money is in integer cents; the prices used keep 8%, 80% and 50% exact.  *)
(***************************************************************************)
EXTENDS Integers, Sequences, FiniteSets, TLC

\* ------------------------------------------------------------------ bounds
MaxOrders == 2      \* orders created in one behaviour
MaxWarmOrders == 1  \* orders created before the first overlap of two requests
MaxBurst == 1       \* requests started from the first overlap on
MaxQty == 1         \* largest quantity of a line item in a request
MaxStock == 1       \* largest initial availableQuantity
MaxReviews == 2      \* reviews after which no rating or review request is admitted
MaxCartLines == 2    \* lines of the client's cart
MaxCartQuantity == 2 \* largest quantity of a line of the cart
MaxNow == 2          \* largest value of Date.now() on the client
MaxToggles == 3      \* saves of a review after which no helpful vote is admitted
MaxRevenue == 9999    \* a placement is admitted while totalRevenue is at most this

Reqs == {1, 2}   \* request slots: two requests can be in progress at the same time
MenuIds == {"m1"}
Users == {"customer", "owner", "admin"}
Prices == {0, 1000}
DeliveryFees == {0}

\* req.body.tip (no validator): left out, a number, a negative number, a
\* string of one digit.
NoTip == [kind |-> "absent", val |-> 0]
Tips ==
  {NoTip, [kind |-> "number", val |-> 50], [kind |-> "number", val |-> -50],
   [kind |-> "string", val |-> 5]}

\* Values of Date.now() when an order number is made.
Timestamps == {0, 1}

\* With requests served one at a time the clock value tells no two order
\* numbers apart that the count does not: one value.
SeqTimestamps == {0}

NULL == -1          \* availableQuantity: null means unlimited

\* ------------------------------------------------------- program constants
Statuses ==
  {"pending", "confirmed", "preparing", "ready_for_pickup",
   "out_for_delivery", "delivered", "cancelled", "refunded"}

\* body('status').isIn([...]) of PATCH /:id/status
UpdateTargets ==
  {"pending", "confirmed", "preparing", "ready_for_pickup",
   "out_for_delivery", "delivered", "cancelled"}

PaymentMethods == {"card", "cash_on_delivery"}

\* Mutant: the table with a ready_for_pickup -> cancelled edge added.
validTransitions_readyCancel(s) ==
  CASE s = "pending"          -> {"confirmed", "cancelled"}
    [] s = "confirmed"        -> {"preparing", "cancelled"}
    [] s = "preparing"        -> {"ready_for_pickup", "cancelled"}
    [] s = "ready_for_pickup" -> {"out_for_delivery", "cancelled"}
    [] s = "out_for_delivery" -> {"delivered"}
    [] s = "delivered"        -> {}
    [] s = "cancelled"        -> {}

\* Mutant: the table with a pending -> delivered edge added.
validTransitions_skip(s) ==
  CASE s = "pending"          -> {"confirmed", "cancelled", "delivered"}
    [] s = "confirmed"        -> {"preparing", "cancelled"}
    [] s = "preparing"        -> {"ready_for_pickup", "cancelled"}
    [] s = "ready_for_pickup" -> {"out_for_delivery"}
    [] s = "out_for_delivery" -> {"delivered"}
    [] s = "delivered"        -> {}
    [] s = "cancelled"        -> {}

validTransitions(s) ==
  CASE s = "pending"          -> {"confirmed", "cancelled"}
    [] s = "confirmed"        -> {"preparing", "cancelled"}
    [] s = "preparing"        -> {"ready_for_pickup", "cancelled"}
    [] s = "ready_for_pickup" -> {"out_for_delivery"}
    [] s = "out_for_delivery" -> {"delivered"}
    [] s = "delivered"        -> {}
    [] s = "cancelled"        -> {}

\* validTransitions[order.status] is undefined for a status that is no key of
\* the table ('refunded'); .includes on it throws a TypeError.
HasTransitions(s) == s \in Statuses \ {"refunded"}

nonCancellableStatuses_open == {"out_for_delivery", "cancelled", "refunded"}

nonCancellableStatuses == {"out_for_delivery", "delivered", "cancelled", "refunded"}

\* Mutant: cancellable exactly where the table has a cancelled edge.
canBeCancelled_graph(order) == order.status \in {"pending", "confirmed", "preparing"}

canBeCancelled(order) == order.status \notin nonCancellableStatuses

\* Mutant: the preparing and ready_for_pickup tiers swapped.
calculateRefundAmount_swapped(order) ==
  IF order.status = "pending" \/ order.status = "confirmed"
    THEN order.total
    ELSE IF order.status = "preparing"
      THEN (order.total * 5) \div 10
      ELSE IF order.status = "ready_for_pickup"
        THEN (order.total * 8) \div 10
        ELSE 0

calculateRefundAmount(order) ==
  IF order.status = "pending" \/ order.status = "confirmed"
    THEN order.total
    ELSE IF order.status = "preparing"
      THEN (order.total * 8) \div 10
      ELSE IF order.status = "ready_for_pickup"
        THEN (order.total * 5) \div 10
        ELSE 0

\* ---------------------------------------------------------------- state
VARIABLES
  orders,      \* the orders collection: order id -> document
  menu,        \* the menuitems collection: menu item id -> document
  restaurant,  \* the restaurant's document
  nextId,      \* number of order ids handed out so far
  stock0,      \* the menu items' availableQuantity in the initial database
  reviews,     \* the reviews collection, in the order of creation
  calc,        \* an evaluation of calculatePrice: its arguments and its result
  req,         \* per request slot: the handler's position and local variables
  burst,       \* number of requests started from the first overlap on
  cart,        \* CartProvider: the reducer's state, every dispatch applied
  rendered,    \* CartProvider: the `state` of the last render, read by callbacks
  auth,        \* AuthProvider: the reducer's state
  localStorage,\* the browser's localStorage: the value of the key 'token'
  calls        \* AuthProvider: per async function, the call that is in progress

\* The browser's side of the application.
client == <<cart, rendered, auth, localStorage, calls>>

vars == <<orders, menu, restaurant, nextId, stock0, reviews, calc, req, burst,
          client>>

\* A time computed as Date.now() + ms: the step whose clock was read, and ms.
NoTime == [at |-> "", ms |-> 0]

NoDoc ==
  [orderNumber |-> <<>>, user |-> "", status |-> "", statusHistory |-> <<>>,
   items |-> <<>>, subtotal |-> 0, deliveryFee |-> 0, tax |-> 0, discount |-> 0,
   tip |-> 0, total |-> 0, method |-> "", payStatus |-> "", refundAmount |-> 0,
   rating |-> 0, estimatedDeliveryTime |-> NoTime]

NoMenuDoc == [name |-> "", price |-> 0, customizations |-> <<>>, addOns |-> <<>>,
              status |-> "", isAvailable |-> FALSE,
              availableQuantity |-> NULL, orderCount |-> 0]

NoRestaurantDoc == [status |-> "", deliveryFee |-> 0, minimumOrder |-> 0,
                    totalOrders |-> 0, totalRevenue |-> 0]

\* A request body of PUT /api/menu/:id: the one key it carries and its value.
NoBody == [key |-> "", price |-> 0, name |-> "", isAvailable |-> FALSE,
           availableQuantity |-> NULL]

NoCalc == [item |-> NoMenuDoc, customizations |-> <<>>, addOns |-> <<>>,
           result |-> 0]

\* A review as Review.create stores it: the schema's defaults for status,
\* helpfulVotes and the version key __v.
NoReview == [user |-> "", order |-> 0, overall |-> 0, status |-> "",
             helpfulVotes |-> [count |-> 0, users |-> <<>>], v |-> 0]

newReview(user, order, overall) ==
  [user |-> user, order |-> order, overall |-> overall, status |-> "active",
   helpfulVotes |-> [count |-> 0, users |-> <<>>], v |-> 0]

IdleReq ==
  [pc |-> "idle", op |-> "none", oid |-> 0, target |-> "",
   doc |-> NoDoc, items |-> <<>>, method |-> "", tip |-> [kind |-> "", val |-> 0],
   mdocs |-> [m \in MenuIds |-> NoMenuDoc], rdoc |-> NoRestaurantDoc,
   idx |-> 0, refund |-> 0, rating |-> 0, body |-> NoBody, event |-> "",
   user |-> "", rid |-> 0, rev |-> NoReview,
   resp |-> ""]

\* ------------------------------------------------------- client: the cart
\* Money on the client is counted in cents: 1000 is 10.00.
\* restaurant objects as menu items carry them; null is NoCartRestaurant.
NoCartRestaurant == [_id |-> "", deliveryFee |-> 0]
CartRestaurants == {[_id |-> "r1", deliveryFee |-> 0],
                    [_id |-> "r2", deliveryFee |-> 200]}

\* Menu items offered to addItem: one of each restaurant, no customizations
\* and no add-ons.
CartMenuItems ==
  {[_id |-> "a", restaurant |-> [_id |-> "r1", deliveryFee |-> 0], price |-> 1000],
   [_id |-> "b", restaurant |-> [_id |-> "r2", deliveryFee |-> 200], price |-> 500]}

cartInitialState ==
  [items |-> <<>>, restaurant |-> NoCartRestaurant, subtotal |-> 0,
   deliveryFee |-> 0, tax |-> 0, total |-> 0, isOpen |-> FALSE]

RECURSIVE CartSubtotal(_)
CartSubtotal(items) ==
  IF items = <<>> THEN 0
  ELSE Head(items).price * Head(items).quantity + CartSubtotal(Tail(items))

\* calculateTotals: 8% tax, each amount rounded to the cent.
calculateTotals(items, deliveryFee) ==
  LET subtotal == CartSubtotal(items)
      tax == (subtotal * 8 + 50) \div 100
  IN  [subtotal |-> subtotal, tax |-> tax, total |-> subtotal + deliveryFee + tax]

\* getItemKey: menu item id | sorted customizations | sorted add-ons.
getItemKey(item) == <<item.menuItem._id, <<>>, <<>>>>

\* items.filter(item => item.id !== itemId)
RECURSIVE CartWithout(_, _)
CartWithout(items, itemId) ==
  IF items = <<>> THEN <<>>
  ELSE IF Head(items).id = itemId
         THEN CartWithout(Tail(items), itemId)
         ELSE <<Head(items)>> \o CartWithout(Tail(items), itemId)

WithTotals(state, totals) ==
  [state EXCEPT !.subtotal = totals.subtotal, !.tax = totals.tax,
                !.total = totals.total]

\* REMOVE_ITEM, and UPDATE_QUANTITY with a quantity of 0 or less.
CartRemove(state, itemId) ==
  LET updatedItems == CartWithout(state.items, itemId)
      restaurant_ == IF Len(updatedItems) > 0 THEN state.restaurant
                                              ELSE NoCartRestaurant
      deliveryFee == IF Len(updatedItems) > 0 THEN state.deliveryFee ELSE 0
  IN  WithTotals([state EXCEPT !.items = updatedItems,
                               !.restaurant = restaurant_,
                               !.deliveryFee = deliveryFee],
                 calculateTotals(updatedItems, deliveryFee))

\* An action of the cart's reducer: type, payload and, for ADD_ITEM, the
\* value Date.now() has when the reducer runs.
cartReducer(state, action) ==
  CASE action.type = "ADD_ITEM" ->
         LET newItem == action.payload
             itemKey == getItemKey(newItem)
             found == {i \in 1..Len(state.items) :
                         getItemKey(state.items[i]) = itemKey}
             existingItemIndex ==
               IF found = {} THEN 0
               ELSE CHOOSE i \in found : \A j \in found : i <= j
             updatedItems ==
               IF existingItemIndex > 0
                 THEN [state.items EXCEPT
                         ![existingItemIndex].quantity = @ + newItem.quantity]
                 ELSE Append(state.items,
                             [menuItem |-> newItem.menuItem,
                              quantity |-> newItem.quantity,
                              price |-> newItem.price, id |-> action.now])
         IN  WithTotals([state EXCEPT !.items = updatedItems],
                        calculateTotals(updatedItems, state.deliveryFee))
    [] action.type = "REMOVE_ITEM" -> CartRemove(state, action.payload)
    [] action.type = "UPDATE_QUANTITY" ->
         IF action.payload.quantity <= 0
           THEN CartRemove(state, action.payload.itemId)
           ELSE LET updatedItems ==
                      [i \in 1..Len(state.items) |->
                         IF state.items[i].id = action.payload.itemId
                           THEN [state.items[i] EXCEPT
                                   !.quantity = action.payload.quantity]
                           ELSE state.items[i]]
                IN  WithTotals([state EXCEPT !.items = updatedItems],
                               calculateTotals(updatedItems, state.deliveryFee))
    [] action.type = "CLEAR_CART" ->
         [cartInitialState EXCEPT !.isOpen = state.isOpen]
    [] action.type = "SET_RESTAURANT" ->
         LET restaurant_ == action.payload
             deliveryFee == restaurant_.deliveryFee
         IN  WithTotals([state EXCEPT !.restaurant = restaurant_,
                                      !.deliveryFee = deliveryFee],
                        calculateTotals(state.items, deliveryFee))
    [] OTHER -> state

\* ----------------------------------------------- client: the auth state
\* null as the value of state.user; a user object is a record of its fields.
NoUser == [null |-> TRUE]
NoToken == ""
Tokens == {"jwt"}

\* response.data.user of the auth API's answers.
Profiles == {[_id |-> "u1", name |-> "Ann", isPhoneVerified |-> FALSE],
             [_id |-> "u1", name |-> "Ann", isPhoneVerified |-> TRUE]}

\* initialState, with localStorage.getItem('token') as it is on load.
authInitialState(token) ==
  [user |-> NoUser, token |-> token, isLoading |-> TRUE,
   isAuthenticated |-> FALSE]

\* { ...a, ...b }: spreading null adds no field.
Spread(a, b) ==
  IF a = NoUser THEN b
  ELSE [f \in DOMAIN a \cup DOMAIN b |-> IF f \in DOMAIN b THEN b[f] ELSE a[f]]

authReducer(state, action) ==
  CASE action.type = "SET_LOADING" -> [state EXCEPT !.isLoading = action.payload]
    [] action.type = "LOGIN_SUCCESS" ->
         [state EXCEPT !.user = action.payload.user,
                       !.token = action.payload.token,
                       !.isAuthenticated = TRUE, !.isLoading = FALSE]
    [] action.type = "LOGOUT" ->
         [state EXCEPT !.user = NoUser, !.token = NoToken,
                       !.isAuthenticated = FALSE, !.isLoading = FALSE]
    [] action.type = "UPDATE_USER" ->
         [state EXCEPT !.user = Spread(state.user, action.payload)]
    [] OTHER -> state

\* The async functions of AuthProvider, and a call of one: where it stands
\* and the token the request interceptor attached when it was sent.
AuthFunctions ==
  {"checkAuth", "login", "register", "logout", "updateProfile", "verifyPhoneOTP"}
NoCall == [pc |-> "idle", token |-> NoToken, sent |-> NoToken]

\* A browser with an empty localStorage in which the page has not yet run
\* its effects.
ClientInit ==
  /\ cart = cartInitialState
  /\ rendered = cartInitialState
  /\ localStorage = NoToken
  /\ auth = authInitialState(NoToken)
  /\ calls = [f \in AuthFunctions |-> NoCall]

Init ==
  /\ orders = <<>>
  /\ \E p \in Prices, q \in {NULL} \cup (0..MaxStock),
        a \in BOOLEAN, s \in {"active", "inactive"} :
       /\ menu = [m \in MenuIds |->
                    [name |-> "dish", price |-> p, customizations |-> <<>>,
                     addOns |-> <<>>, status |-> s, isAvailable |-> a,
                     availableQuantity |-> q, orderCount |-> 0]]
       /\ stock0 = [m \in MenuIds |-> q]
  /\ \E s \in {"active", "inactive"}, f \in DeliveryFees :
       restaurant = [status |-> s, deliveryFee |-> f, minimumOrder |-> 0,
                     totalOrders |-> 0, totalRevenue |-> 0]
  /\ nextId = 0
  /\ reviews = <<>>
  /\ calc = NoCalc
  /\ req = [r \in Reqs |-> IdleReq]
  /\ burst = 0
  /\ ClientInit

\* ------------------------------------------------------- mongoose helpers
\* document.save() of a loaded order: the paths whose local value differs from
\* the loaded one are $set, the history entries pushed locally are $push-ed.
saveOrder_replace(stored, loaded, local) ==
  [stored EXCEPT
     !.status = IF local.status # loaded.status THEN local.status ELSE @,
     !.statusHistory =
        SubSeq(local.statusHistory, Len(loaded.statusHistory) + 1,
               Len(local.statusHistory)),
     !.payStatus = IF local.payStatus # loaded.payStatus THEN local.payStatus ELSE @,
     !.refundAmount =
        IF local.refundAmount # loaded.refundAmount THEN local.refundAmount ELSE @,
     !.rating = IF local.rating # loaded.rating THEN local.rating ELSE @,
     !.estimatedDeliveryTime =
        IF local.estimatedDeliveryTime # loaded.estimatedDeliveryTime
          THEN local.estimatedDeliveryTime ELSE @]

saveOrder(stored, loaded, local) ==
  [stored EXCEPT
     !.status = IF local.status # loaded.status THEN local.status ELSE @,
     !.statusHistory =
        @ \o SubSeq(local.statusHistory, Len(loaded.statusHistory) + 1,
                    Len(local.statusHistory)),
     !.payStatus = IF local.payStatus # loaded.payStatus THEN local.payStatus ELSE @,
     !.refundAmount =
        IF local.refundAmount # loaded.refundAmount THEN local.refundAmount ELSE @,
     !.rating = IF local.rating # loaded.rating THEN local.rating ELSE @,
     !.estimatedDeliveryTime =
        IF local.estimatedDeliveryTime # loaded.estimatedDeliveryTime
          THEN local.estimatedDeliveryTime ELSE @]

SetReq(r, rec) == req' = [req EXCEPT ![r] = rec]

\* The handler throws (or responds): the error middleware sends `code`.
Respond(r, code) ==
  SetReq(r, [req[r] EXCEPT !.pc = "done", !.resp = code,
                           !.mdocs = IdleReq.mdocs, !.rdoc = IdleReq.rdoc,
                           !.idx = 0])

InFlight(r) == req[r].pc \notin {"idle", "done"}

\* What io.to(room).emit(...) does when the handler calls it: the event is
\* handed to the adapter, or the call throws.
Publications == {"sent", "throws"}

\* The end of a handler whose writes are done: emit, then res.json.  The emit
\* is not inside a try block: when it throws, the error middleware answers.
Publish(r, event, pub) ==
  IF pub = "throws"
    THEN Respond(r, "ServerError")
    ELSE SetReq(r, [req[r] EXCEPT !.pc = "done", !.resp = "OK", !.event = event,
                                  !.mdocs = IdleReq.mdocs, !.rdoc = IdleReq.rdoc,
                                  !.idx = 0])

\* ------------------------------------------------- PATCH /api/orders/:id/status
\* Mutant: the status is set, no history entry is pushed.
updateStatus_noPush(order, newStatus) == [order EXCEPT !.status = newStatus]

prepTime == 30      \* minutes
deliveryTime == 20  \* minutes

updateStatus_prepOnly(order, newStatus) ==
  [order EXCEPT !.status = newStatus,
                !.statusHistory = Append(@, [status |-> newStatus]),
                !.estimatedDeliveryTime =
                   IF newStatus = "confirmed"
                     THEN [at |-> "confirmed", ms |-> prepTime * 60000]
                     ELSE @]

\* Of the timestamps set in the switch, estimatedDeliveryTime is kept.
updateStatus(order, newStatus) ==
  [order EXCEPT !.status = newStatus,
                !.statusHistory = Append(@, [status |-> newStatus]),
                !.estimatedDeliveryTime =
                   IF newStatus = "confirmed"
                     THEN [at |-> "confirmed",
                           ms |-> (prepTime + deliveryTime) * 60000]
                     ELSE @]

\* findById resolves; authorization and transition checks; updateStatus()
\* modifies the local document and issues save().
UpdateLoad(r, user, oid, target) ==
  /\ req[r].pc = "idle"
  /\ LET q == [req[r] EXCEPT !.op = "update", !.oid = oid]
     IN IF oid \notin DOMAIN orders
          THEN SetReq(r, [q EXCEPT !.pc = "done", !.resp = "NotFound"])
          ELSE LET order == orders[oid]
                   l == [q EXCEPT !.doc = order, !.target = target]
               IN IF user \notin {"admin", "owner"}
                    THEN SetReq(r, [q EXCEPT !.pc = "done", !.resp = "Authorization"])
                    ELSE IF ~HasTransitions(order.status)
                      THEN SetReq(r, [l EXCEPT !.pc = "done", !.resp = "ServerError"])
                      ELSE IF target \notin validTransitions(order.status)
                        THEN SetReq(r, [l EXCEPT !.pc = "done", !.resp = "Validation"])
                        ELSE SetReq(r, [l EXCEPT !.pc = "u_save"])
  /\ UNCHANGED <<orders, menu, restaurant, nextId, stock0, reviews, calc, client>>

\* The update issued by save() is applied to the stored document.
UpdateSave(r) ==
  /\ req[r].pc = "u_save"
  /\ IF req[r].oid \in DOMAIN orders
       THEN /\ orders' = [orders EXCEPT ![req[r].oid] =
                  saveOrder(@, req[r].doc, updateStatus(req[r].doc, req[r].target))]
            /\ SetReq(r, [req[r] EXCEPT !.pc = "u_respond"])
       ELSE /\ Respond(r, "ServerError")
            /\ UNCHANGED orders
  /\ UNCHANGED <<menu, restaurant, nextId, stock0, reviews, calc, client>>

\* emit 'order-status-update', res.json
UpdateRespond(r, pub) ==
  /\ req[r].pc = "u_respond"
  /\ Publish(r, "order-status-update", pub)
  /\ UNCHANGED <<orders, menu, restaurant, nextId, stock0, reviews, calc, client>>

\* ------------------------------------------------- PATCH /api/orders/:id/cancel
\* The local modifications of the cancel handler before save().
\* Mutant: the refund is recorded whatever the payment status was.
cancelOrder_anyPayment(order, refundAmount) ==
  LET c == [order EXCEPT !.status = "cancelled",
                         !.statusHistory = Append(@, [status |-> "cancelled"])]
  IN IF refundAmount > 0
       THEN [c EXCEPT !.payStatus = "refunded", !.refundAmount = refundAmount]
       ELSE c

cancelOrder_statusRefunded(order, refundAmount) ==
  LET c == [order EXCEPT !.status = "cancelled",
                         !.statusHistory = Append(@, [status |-> "cancelled"])]
  IN IF order.payStatus = "completed" /\ refundAmount > 0
       THEN [c EXCEPT !.status = "refunded", !.payStatus = "refunded",
                      !.refundAmount = refundAmount]
       ELSE c

cancelOrder(order, refundAmount) ==
  LET c == [order EXCEPT !.status = "cancelled",
                         !.statusHistory = Append(@, [status |-> "cancelled"])]
  IN IF order.payStatus = "completed" /\ refundAmount > 0
       THEN [c EXCEPT !.payStatus = "refunded", !.refundAmount = refundAmount]
       ELSE c

CancelLoad(r, user, oid) ==
  /\ req[r].pc = "idle"
  /\ LET q == [req[r] EXCEPT !.op = "cancel", !.oid = oid]
     IN IF oid \notin DOMAIN orders
          THEN SetReq(r, [q EXCEPT !.pc = "done", !.resp = "NotFound"])
          ELSE LET order == orders[oid]
                   l == [q EXCEPT !.doc = order]
               IN IF order.user # user /\ user # "admin"
                    THEN SetReq(r, [q EXCEPT !.pc = "done", !.resp = "Authorization"])
                    ELSE IF ~canBeCancelled(order)
                      THEN SetReq(r, [l EXCEPT !.pc = "done", !.resp = "Validation"])
                      ELSE SetReq(r, [l EXCEPT !.pc = "c_save",
                                               !.refund = calculateRefundAmount(order)])
  /\ UNCHANGED <<orders, menu, restaurant, nextId, stock0, reviews, calc, client>>

\* After the restore loop's item idx: the next item, or the response.
CancelNext(q) ==
  IF q.idx < Len(q.doc.items)
    THEN [q EXCEPT !.pc = "c_find", !.idx = @ + 1]
    ELSE [q EXCEPT !.pc = "c_respond"]

CancelSave(r) ==
  /\ req[r].pc = "c_save"
  /\ IF req[r].oid \in DOMAIN orders
       THEN /\ orders' = [orders EXCEPT ![req[r].oid] =
                  saveOrder(@, req[r].doc, cancelOrder(req[r].doc, req[r].refund))]
            /\ SetReq(r, CancelNext([req[r] EXCEPT !.idx = 0]))
       ELSE /\ Respond(r, "ServerError")
            /\ UNCHANGED orders
  /\ UNCHANGED <<menu, restaurant, nextId, stock0, reviews, calc, client>>

\* MenuItem.findById(item.menuItem) of the restore loop
CancelRestoreFind(r) ==
  /\ req[r].pc = "c_find"
  /\ LET item == req[r].doc.items[req[r].idx]
         m == item.menuItem
     IN IF menu[m].availableQuantity # NULL
          THEN SetReq(r, [req[r] EXCEPT !.pc = "c_restore",
                                        !.mdocs = [@ EXCEPT ![m] = menu[m]]])
          ELSE SetReq(r, CancelNext(req[r]))
  /\ UNCHANGED <<orders, menu, restaurant, nextId, stock0, reviews, calc, client>>

\* menuItem.availability.availableQuantity += item.quantity; menuItem.save()
CancelRestoreSave(r) ==
  /\ req[r].pc = "c_restore"
  /\ LET item == req[r].doc.items[req[r].idx]
         m == item.menuItem
     IN menu' = [menu EXCEPT ![m].availableQuantity =
                   req[r].mdocs[m].availableQuantity + item.quantity]
  /\ SetReq(r, CancelNext(req[r]))
  /\ UNCHANGED <<orders, restaurant, nextId, stock0, reviews, calc, client>>

\* emit 'order-cancelled', res.json
CancelRespond(r, pub) ==
  /\ req[r].pc = "c_respond"
  /\ Publish(r, "order-cancelled", pub)
  /\ UNCHANGED <<orders, menu, restaurant, nextId, stock0, reviews, calc, client>>

\* --------------------------------------------------- POST /api/orders/:id/rate
Ratings == {1, 5}   \* body('overall').isInt({min: 1, max: 5})

\* Mutant: the check for an existing rating is left out.
rateChecks_noRated(order) ==
  IF order.status # "delivered" THEN "Validation" ELSE "ok"

\* The checks of the rate handler on the loaded order.
rateChecks(order) ==
  IF order.status # "delivered"
    THEN "Validation"
    ELSE IF order.rating # 0 THEN "Validation" ELSE "ok"

\* findById resolves; owner, status and rating checks; order.rating is set
\* and save() issued.
RateLoad(r, user, oid, overall) ==
  /\ req[r].pc = "idle"
  /\ LET q == [req[r] EXCEPT !.op = "rate", !.oid = oid]
     IN IF oid \notin DOMAIN orders
          THEN SetReq(r, [q EXCEPT !.pc = "done", !.resp = "NotFound"])
          ELSE LET order == orders[oid]
                   l == [q EXCEPT !.doc = order, !.rating = overall]
               IN IF order.user # user
                    THEN SetReq(r, [q EXCEPT !.pc = "done", !.resp = "Authorization"])
                    ELSE IF rateChecks(order) # "ok"
                      THEN SetReq(r, [l EXCEPT !.pc = "done",
                                               !.resp = rateChecks(order)])
                      ELSE SetReq(r, [l EXCEPT !.pc = "r_save"])
  /\ UNCHANGED <<orders, menu, restaurant, nextId, stock0, reviews, calc, client>>

\* order.save() is applied; Review.create is issued.
RateSave(r) ==
  /\ req[r].pc = "r_save"
  /\ IF req[r].oid \in DOMAIN orders
       THEN /\ orders' = [orders EXCEPT ![req[r].oid] =
                  saveOrder(@, req[r].doc,
                            [req[r].doc EXCEPT !.rating = req[r].rating])]
            /\ SetReq(r, [req[r] EXCEPT !.pc = "r_review"])
       ELSE /\ Respond(r, "ServerError")
            /\ UNCHANGED orders
  /\ UNCHANGED <<menu, restaurant, nextId, stock0, reviews, calc, client>>

\* Review.create is applied; res.json
RateReview(r) ==
  /\ req[r].pc = "r_review"
  /\ reviews' = Append(reviews,
                        newReview(req[r].doc.user, req[r].oid, req[r].rating))
  /\ Respond(r, "OK")
  /\ UNCHANGED <<orders, menu, restaurant, nextId, stock0, calc, client>>

\* ------------------------------------------------------ POST /api/reviews
\* Order.findById resolves; owner and delivered checks (the body names the
\* order's restaurant); Review.findOne is issued.
ReviewLoad(r, user, oid, overall) ==
  /\ req[r].pc = "idle"
  /\ LET q == [req[r] EXCEPT !.op = "review", !.oid = oid]
     IN IF oid \notin DOMAIN orders
          THEN SetReq(r, [q EXCEPT !.pc = "done", !.resp = "NotFound"])
          ELSE LET order == orders[oid]
                   l == [q EXCEPT !.doc = order, !.rating = overall]
               IN IF order.user # user
                    THEN SetReq(r, [q EXCEPT !.pc = "done", !.resp = "Authorization"])
                    ELSE IF order.status # "delivered"
                      THEN SetReq(r, [l EXCEPT !.pc = "done", !.resp = "Validation"])
                      ELSE SetReq(r, [l EXCEPT !.pc = "v_find"])
  /\ UNCHANGED <<orders, menu, restaurant, nextId, stock0, reviews, calc, client>>

\* Review.findOne({user, order}) resolves; Review.create is issued.
ReviewFindExisting(r) ==
  /\ req[r].pc = "v_find"
  /\ IF \E i \in 1..Len(reviews) :
          reviews[i].user = req[r].doc.user /\ reviews[i].order = req[r].oid
       THEN Respond(r, "Validation")
       ELSE SetReq(r, [req[r] EXCEPT !.pc = "v_create"])
  /\ UNCHANGED <<orders, menu, restaurant, nextId, stock0, reviews, calc, client>>

\* Review.create is applied; populate; res.status(201)
ReviewCreate(r) ==
  /\ req[r].pc = "v_create"
  /\ reviews' = Append(reviews,
                        newReview(req[r].doc.user, req[r].oid, req[r].rating))
  /\ Respond(r, "OK")
  /\ UNCHANGED <<orders, menu, restaurant, nextId, stock0, calc, client>>

\* ----------------------------------------- POST /api/reviews/:id/helpful
\* users.indexOf(userId), counted from 1; 0 when userId is not in users.
indexOf(users, userId) ==
  LET at == {i \in 1..Len(users) : users[i] = userId}
  IN  IF at = {} THEN 0 ELSE CHOOSE i \in at : \A j \in at : i <= j

\* users.splice(index, 1)
splice(users, index) ==
  SubSeq(users, 1, index - 1) \o SubSeq(users, index + 1, Len(users))

\* markHelpful, up to this.save(): the changes to the loaded document.
markHelpful(review, userId) ==
  IF indexOf(review.helpfulVotes.users, userId) = 0
    THEN [review EXCEPT !.helpfulVotes.users = Append(@, userId),
                        !.helpfulVotes.count = @ + 1]
    ELSE review

\* unmarkHelpful, up to this.save(): the changes to the loaded document.
unmarkHelpful(review, userId) ==
  LET index == indexOf(review.helpfulVotes.users, userId)
  IN  IF index > 0
        THEN [review EXCEPT
                !.helpfulVotes.users = splice(@, index),
                !.helpfulVotes.count = IF @ - 1 > 0 THEN @ - 1 ELSE 0]
        ELSE review

\* The local array is the loaded one with elements pushed at its end.
Pushed(loaded, local) ==
  /\ Len(local) > Len(loaded)
  /\ SubSeq(local, 1, Len(loaded)) = loaded

\* review.save() when the document was changed: count is $set; pushed users
\* are sent as $push, with $inc of __v; a spliced array is sent whole as $set,
\* with __v in the filter and $inc of __v.
saveReview(stored, loaded, local) ==
  IF Pushed(loaded.helpfulVotes.users, local.helpfulVotes.users)
    THEN [stored EXCEPT
            !.helpfulVotes.users =
               @ \o SubSeq(local.helpfulVotes.users,
                           Len(loaded.helpfulVotes.users) + 1,
                           Len(local.helpfulVotes.users)),
            !.helpfulVotes.count = local.helpfulVotes.count,
            !.v = @ + 1]
    ELSE [stored EXCEPT
            !.helpfulVotes.users = local.helpfulVotes.users,
            !.helpfulVotes.count = local.helpfulVotes.count,
            !.v = @ + 1]

\* The filter of the update matches the stored document.
saveMatches(stored, loaded, local) ==
  Pushed(loaded.helpfulVotes.users, local.helpfulVotes.users)
    \/ stored.v = loaded.v

\* Review.findById resolves; hasMarked; markHelpful or unmarkHelpful changes
\* the document and issues its save.
HelpfulLoad(r, user, rid) ==
  /\ req[r].pc = "idle"
  /\ LET q == [req[r] EXCEPT !.op = "helpful", !.rid = rid, !.user = user]
     IN IF rid \notin 1..Len(reviews)
          THEN SetReq(r, [q EXCEPT !.pc = "done", !.resp = "NotFound"])
          ELSE IF reviews[rid].status # "active"
            THEN SetReq(r, [q EXCEPT !.pc = "done", !.resp = "NotFound"])
            ELSE SetReq(r, [q EXCEPT !.pc = "h_save", !.rev = reviews[rid]])
  /\ UNCHANGED <<orders, menu, restaurant, nextId, stock0, reviews, calc, client>>

\* The save of markHelpful or unmarkHelpful is applied; res.json, or the
\* VersionError the save rejected with.
HelpfulSave(r) ==
  /\ req[r].pc = "h_save"
  /\ LET loaded == req[r].rev
         hasMarked == indexOf(loaded.helpfulVotes.users, req[r].user) > 0
         local == IF hasMarked THEN unmarkHelpful(loaded, req[r].user)
                               ELSE markHelpful(loaded, req[r].user)
         stored == reviews[req[r].rid]
     IN IF saveMatches(stored, loaded, local)
          THEN /\ reviews' = [reviews EXCEPT
                                ![req[r].rid] = saveReview(stored, loaded, local)]
               /\ SetReq(r, [req[r] EXCEPT !.pc = "done", !.resp = "OK",
                                           !.rev = NoReview])
          ELSE /\ reviews' = reviews
               /\ SetReq(r, [req[r] EXCEPT !.pc = "done", !.resp = "VersionError",
                                           !.rev = NoReview])
  /\ UNCHANGED <<orders, menu, restaurant, nextId, stock0, calc, client>>

\* ------------------------------------------------------- PUT /api/menu/:id
MenuBodies ==
  {[NoBody EXCEPT !.key = "price", !.price = p] : p \in Prices}
    \cup {[NoBody EXCEPT !.key = "name", !.name = "renamed"]}
    \cup {[NoBody EXCEPT !.key = "availability", !.isAvailable = FALSE],
          [NoBody EXCEPT !.key = "availability", !.isAvailable = TRUE,
                         !.availableQuantity = MaxStock]}

\* Object.keys(req.body).forEach(key => menuItem[key] = req.body[key])
applyBody(menuItem, body) ==
  CASE body.key = "price" -> [menuItem EXCEPT !.price = body.price]
    [] body.key = "name" -> [menuItem EXCEPT !.name = body.name]
    [] body.key = "availability" ->
         [menuItem EXCEPT !.isAvailable = body.isAvailable,
                          !.availableQuantity = body.availableQuantity]

\* findById resolves; ownership check; the body's keys are set on the local
\* document and save() issued.
MenuPutLoad(r, user, m, body) ==
  /\ req[r].pc = "idle"
  /\ LET q == [req[r] EXCEPT !.op = "menu"]
     IN IF user \notin {"admin", "owner"}
          THEN SetReq(r, [q EXCEPT !.pc = "done", !.resp = "Authorization"])
          ELSE SetReq(r, [q EXCEPT !.pc = "m_save", !.body = body,
                                   !.mdocs = [@ EXCEPT ![m] = menu[m]],
                                   !.items = <<[menuItem |-> m, quantity |-> 0]>>])
  /\ UNCHANGED <<orders, menu, restaurant, nextId, stock0, reviews, calc, client>>

\* Mutant: the new price is also written into the orders' line items.
MenuPutSave_cascade(r) ==
  /\ req[r].pc = "m_save"
  /\ LET m == req[r].items[1].menuItem
     IN /\ menu' = [menu EXCEPT ![m] = applyBody(@, req[r].body)]
        /\ orders' = [o \in DOMAIN orders |->
                        [orders[o] EXCEPT !.items =
                           [i \in 1..Len(@) |->
                              [@[i] EXCEPT !.price = menu'[m].price]]]]
  /\ Respond(r, "OK")
  /\ UNCHANGED <<restaurant, nextId, stock0, reviews, calc, client>>

\* menuItem.save() is applied (the paths set from the body); populate; res.json
MenuPutSave(r) ==
  /\ req[r].pc = "m_save"
  /\ LET m == req[r].items[1].menuItem
     IN menu' = [menu EXCEPT ![m] = applyBody(@, req[r].body)]
  /\ Respond(r, "OK")
  /\ UNCHANGED <<orders, restaurant, nextId, stock0, reviews, calc, client>>

\* ------------------------------------------------------- POST /api/orders
\* What evaluating the isCurrentlyAvailable virtual meets at the time of the
\* request: "RangeError" is toLocaleDateString('en-US', {weekday: 'lowercase'})
\* rejecting the option value (a runtime with Intl), "open" and "closed" are
\* a runtime that returns a string, with the current day and time inside or
\* outside the item's availableDays / availableHours window.
Clocks == {"RangeError", "open", "closed"}

isCurrentlyAvailable(item, clock) ==
  IF ~item.isAvailable \/ item.status # "active"
    THEN "false"
    ELSE IF item.availableQuantity # NULL /\ item.availableQuantity <= 0
      THEN "false"
      ELSE IF clock = "RangeError"
        THEN "RangeError"
        ELSE IF clock = "closed" THEN "false" ELSE "true"

\* customizations.forEach: find the configuration by name, then the selected
\* option by name; what is not found adds nothing.
RECURSIVE FindByName(_, _, _)
FindByName(table, name, i) ==
  IF i > Len(table) THEN 0
  ELSE IF table[i].name = name THEN i ELSE FindByName(table, name, i + 1)

RECURSIVE CustomizationsPrice(_, _, _)
CustomizationsPrice(item, customizations, i) ==
  IF i > Len(customizations)
    THEN 0
    ELSE LET c == FindByName(item.customizations, customizations[i].name, 1)
             o == IF c = 0 THEN 0
                  ELSE FindByName(item.customizations[c].options,
                                  customizations[i].selectedOption, 1)
         IN (IF o = 0 THEN 0 ELSE item.customizations[c].options[o].price)
              + CustomizationsPrice(item, customizations, i + 1)

\* addOn.quantity || 1: a quantity that is left out, and a quantity of 0,
\* count as 1.
QuantityOrOne(addOn) ==
  IF addOn.hasQuantity /\ addOn.quantity # 0 THEN addOn.quantity ELSE 1

RECURSIVE AddOnsPrice(_, _, _)
AddOnsPrice(item, addOns, i) ==
  IF i > Len(addOns)
    THEN 0
    ELSE LET a == FindByName(item.addOns, addOns[i].name, 1)
         IN (IF a = 0 THEN 0 ELSE item.addOns[a].price * QuantityOrOne(addOns[i]))
              + AddOnsPrice(item, addOns, i + 1)

calculatePrice(item, customizations, addOns) ==
  item.price + CustomizationsPrice(item, customizations, 1)
             + AddOnsPrice(item, addOns, 1)

\* The loop over the requested items, from item i on: the first check that
\* fails ends the request.
RECURSIVE CheckItems(_, _, _, _)
CheckItems(items, mdocs, clock, i) ==
  IF i > Len(items)
    THEN "ok"
    ELSE LET menuItem == mdocs[items[i].menuItem]
             avail == isCurrentlyAvailable(menuItem, clock)
         IN IF avail = "RangeError"
              THEN "ServerError"
              ELSE IF avail = "false"
                THEN "Validation"
                ELSE IF menuItem.availableQuantity # NULL
                        /\ menuItem.availableQuantity < items[i].quantity
                  THEN "Validation"
                  ELSE CheckItems(items, mdocs, clock, i + 1)

\* orderItem.customizations || [], orderItem.addOns || []: the requests
\* modelled select none.
orderItems(items, mdocs) ==
  [i \in 1..Len(items) |->
     LET menuItem == mdocs[items[i].menuItem]
         itemPrice == calculatePrice(menuItem, <<>>, <<>>)
     IN [menuItem |-> items[i].menuItem,
         name |-> menuItem.name,
         price |-> itemPrice,
         quantity |-> items[i].quantity,
         itemTotal |-> itemPrice * items[i].quantity]]

RECURSIVE SumItemTotals(_, _)
SumItemTotals(its, i) ==
  IF i > Len(its) THEN 0 ELSE its[i].itemTotal + SumItemTotals(its, i + 1)

Tax(subtotal) == (subtotal * 8) \div 100

\* Number of characters of String(n), n a non-negative integer.
RECURSIVE NumDigits(_)
NumDigits(n) == IF n < 10 THEN 1 ELSE 1 + NumDigits(n \div 10)

RECURSIVE Pow10(_)
Pow10(k) == IF k = 0 THEN 1 ELSE 10 * Pow10(k - 1)

\* a + tip of the handler, as a number: the sum when the tip is a number;
\* when the tip is a string (of one digit), + concatenates String(a) and the
\* tip, and the Number path the result is stored in casts it.
PlusTip(a, tip) ==
  IF tip.kind = "string" THEN a * 10 + tip.val ELSE a + tip.val

\* x += total of the handler, in a Number path: the sum when total is a number;
\* when total is the string String(a) + tip, the concatenation of String(x)
\* and that string.
PlusTotal(x, a, tip) ==
  IF tip.kind = "string"
    THEN x * Pow10(NumDigits(a) + 1) + PlusTip(a, tip)
    ELSE x + PlusTip(a, tip)

\* The requests' item lists: one line of an item of the restaurant, one line
\* of an item that is not the restaurant's, the same item on two lines.
ItemLists ==
  {<<[menuItem |-> m, quantity |-> q]>> : m \in MenuIds, q \in 1..MaxQty}
    \cup {<<[menuItem |-> "other", quantity |-> 1]>>}
    \cup {<<[menuItem |-> m, quantity |-> 1], [menuItem |-> m, quantity |-> 1]>> :
            m \in MenuIds}

\* With requests served one at a time, also a line that asks for more than a
\* limited item can have in stock.
SeqItemLists ==
  ItemLists \cup {<<[menuItem |-> m, quantity |-> MaxStock + 1]>> : m \in MenuIds}

\* Placements that have not yet created their order.
Placing == {r \in Reqs : req[r].pc \in {"p_menu", "p_number", "p_create"}}

\* Restaurant.findById resolves.
PlaceFindRestaurant(r, items, method, tip) ==
  /\ req[r].pc = "idle"
  /\ LET q == [req[r] EXCEPT !.op = "place", !.items = items, !.method = method,
                             !.tip = tip]
     IN IF restaurant.status # "active"
          THEN SetReq(r, [req[r] EXCEPT !.op = "place", !.pc = "done",
                                        !.resp = "NotFound"])
          ELSE SetReq(r, [q EXCEPT !.pc = "p_menu", !.rdoc = restaurant])
  /\ UNCHANGED <<orders, menu, restaurant, nextId, stock0, reviews, calc, client>>

\* How document.save() of a new order orders its pre-save work: the built-in
\* validation first, which finds the required orderNumber unset, or the
\* schema's pre('save') hook first, which sets it.
SaveOrders == {"validation_first", "hook_first"}

\* The schema's validators on the new order: min: 0 on the pricing numbers and
\* the item prices, min: 1 on the quantities, orderNumber required.
validateOrder(orderData, saveOrder_) ==
  /\ saveOrder_ = "hook_first"
  /\ orderData.subtotal >= 0 /\ orderData.deliveryFee >= 0 /\ orderData.tax >= 0
  /\ orderData.discount >= 0 /\ orderData.tip >= 0 /\ orderData.total >= 0
  /\ \A i \in 1..Len(orderData.items) :
       orderData.items[i].price >= 0 /\ orderData.items[i].quantity >= 1

\* The pricing of the handler and the orderData it passes to Order.create.
orderData(r, mdocs) ==
  LET its == orderItems(req[r].items, mdocs)
      subtotal == SumItemTotals(its, 1)
      deliveryFee == req[r].rdoc.deliveryFee
      tax == Tax(subtotal)
      discount == 0
      tip == req[r].tip
      total == PlusTip(subtotal + deliveryFee + tax - discount, tip)
  IN [orderNumber |-> <<>>, user |-> "customer", status |-> "pending",
      statusHistory |-> <<>>, items |-> its, subtotal |-> subtotal,
      deliveryFee |-> deliveryFee, tax |-> tax, discount |-> discount,
      tip |-> tip.val, total |-> total, method |-> req[r].method,
      payStatus |-> "pending", refundAmount |-> 0, rating |-> 0,
      estimatedDeliveryTime |-> [at |-> "placement", ms |-> 45 * 60000]]

\* MenuItem.find resolves; availability checks, pricing; Order.create validates
\* the document and its pre-save hook issues countDocuments.
PlaceFindMenu(r, clock, saveOrder_) ==
  /\ req[r].pc = "p_menu"
  /\ LET items == req[r].items
         menuItems == {m \in MenuIds :
                         /\ \E i \in 1..Len(items) : items[i].menuItem = m
                         /\ menu[m].status = "active"}
         mdocs == [m \in MenuIds |-> IF m \in menuItems THEN menu[m] ELSE NoMenuDoc]
     IN IF Cardinality(menuItems) # Len(items)
          THEN Respond(r, "Validation")
          ELSE LET check == CheckItems(items, mdocs, clock, 1)
                   data == orderData(r, mdocs)
               IN IF check # "ok"
                    THEN Respond(r, check)
                    ELSE IF data.subtotal < req[r].rdoc.minimumOrder
                      THEN Respond(r, "Validation")
                      ELSE IF ~validateOrder(data, saveOrder_)
                        THEN Respond(r, "Validation")
                        ELSE SetReq(r, [req[r] EXCEPT !.pc = "p_number",
                                                      !.mdocs = mdocs,
                                                      !.doc = data])
  /\ UNCHANGED <<orders, menu, restaurant, nextId, stock0, reviews, calc, client>>

\* The stock loop at item idx: a limited item's quantity is saved first, an
\* unlimited item goes on to the order count.
PlaceItem(q, i) ==
  IF i > Len(q.items)
    THEN [q EXCEPT !.pc = "p_rest", !.idx = 0]
    ELSE IF q.mdocs[q.items[i].menuItem].availableQuantity # NULL
      THEN [q EXCEPT !.pc = "p_stock", !.idx = i]
      ELSE [q EXCEPT !.pc = "p_count", !.idx = i]

\* The pre-save hook of a new order: countDocuments resolves, the order number
\* is made of Date.now() and the count, the initial history entry is pushed;
\* the insert is issued.
PlaceNumber(r, now) ==
  /\ req[r].pc = "p_number"
  /\ LET count == Cardinality(DOMAIN orders)
     IN SetReq(r, [req[r] EXCEPT
                     !.pc = "p_create",
                     !.doc.orderNumber = <<now, count + 1>>,
                     !.doc.statusHistory = Append(@, [status |-> req[r].doc.status])])
  /\ UNCHANGED <<orders, menu, restaurant, nextId, stock0, reviews, calc, client>>

\* Mutant: the insert without the unique index on orderNumber.
PlaceCreate_noIndex(r) ==
  /\ req[r].pc = "p_create"
  /\ orders' = orders @@ ((nextId + 1) :> req[r].doc)
  /\ nextId' = nextId + 1
  /\ IF req[r].method # "cash_on_delivery"
       THEN SetReq(r, [req[r] EXCEPT !.oid = nextId + 1, !.pc = "p_pay"])
       ELSE SetReq(r, PlaceItem([req[r] EXCEPT !.oid = nextId + 1], 1))
  /\ UNCHANGED <<menu, restaurant, stock0, reviews, calc, client>>

PlaceCreate_payAlways(r) ==
  /\ req[r].pc = "p_create"
  /\ IF \E o \in DOMAIN orders : orders[o].orderNumber = req[r].doc.orderNumber
       THEN /\ Respond(r, "Validation")
            /\ UNCHANGED <<orders, nextId>>
       ELSE LET id == nextId + 1
                q == [req[r] EXCEPT !.oid = id]
            IN /\ orders' = orders @@ (id :> req[r].doc)
               /\ nextId' = id
               /\ SetReq(r, [q EXCEPT !.pc = "p_pay"])
  /\ UNCHANGED <<menu, restaurant, stock0, reviews, calc, client>>

\* The insert of Order.create is applied: the unique index on orderNumber
\* rejects a number that an order in the collection has (duplicate key, 400).
PlaceCreate(r) ==
  /\ req[r].pc = "p_create"
  /\ IF \E o \in DOMAIN orders : orders[o].orderNumber = req[r].doc.orderNumber
       THEN /\ Respond(r, "Validation")
            /\ UNCHANGED <<orders, nextId>>
       ELSE LET id == nextId + 1
                q == [req[r] EXCEPT !.oid = id]
            IN /\ orders' = orders @@ (id :> req[r].doc)
               /\ nextId' = id
               /\ IF req[r].method # "cash_on_delivery"
                    THEN SetReq(r, [q EXCEPT !.pc = "p_pay"])
                    ELSE SetReq(r, PlaceItem(q, 1))
  /\ UNCHANGED <<menu, restaurant, stock0, reviews, calc, client>>

paymentCompleted(order) == [order EXCEPT !.payStatus = "completed"]

\* processPayment resolves (Math.random() > 0.1): the payment fields are set
\* on the local order and order.save() writes them.  (Nothing can observe the
\* handler between the gateway's answer and the write it issues at once, so
\* the two are one step.)
PlacePaymentSuccess(r) ==
  /\ req[r].pc = "p_pay"
  /\ IF req[r].oid \in DOMAIN orders
       THEN /\ orders' = [orders EXCEPT ![req[r].oid] =
                  saveOrder(@, req[r].doc, paymentCompleted(req[r].doc))]
            /\ SetReq(r, PlaceItem([req[r] EXCEPT
                                      !.doc = paymentCompleted(req[r].doc)], 1))
       ELSE /\ Respond(r, "ServerError")
            /\ UNCHANGED orders
  /\ UNCHANGED <<menu, restaurant, nextId, stock0, reviews, calc, client>>

\* Mutant: the PaymentError is rethrown without deleting the order.
PlacePaymentFailure_keep(r) ==
  /\ req[r].pc = "p_pay"
  /\ Respond(r, "PaymentError")
  /\ UNCHANGED <<orders, menu, restaurant, nextId, stock0, reviews, calc, client>>

PlacePaymentFailure_counted(r) ==
  /\ req[r].pc = "p_pay"
  /\ orders' = [o \in DOMAIN orders \ {req[r].oid} |-> orders[o]]
  /\ restaurant' = [restaurant EXCEPT !.totalOrders = @ + 1]
  /\ Respond(r, "PaymentError")
  /\ UNCHANGED <<menu, nextId, stock0, reviews, calc, client>>

\* processPayment throws PaymentError: Order.findByIdAndDelete removes the
\* order and the error is rethrown.
PlacePaymentFailure(r) ==
  /\ req[r].pc = "p_pay"
  /\ orders' = [o \in DOMAIN orders \ {req[r].oid} |-> orders[o]]
  /\ Respond(r, "PaymentError")
  /\ UNCHANGED <<menu, restaurant, nextId, stock0, reviews, calc, client>>

\* menuItem.availability.availableQuantity -= quantity; menuItem.save()
PlaceStockSave(r) ==
  /\ req[r].pc = "p_stock"
  /\ LET item == req[r].items[req[r].idx]
         m == item.menuItem
         left == req[r].mdocs[m].availableQuantity - item.quantity
     IN /\ menu' = [menu EXCEPT ![m].availableQuantity = left]
        /\ SetReq(r, [req[r] EXCEPT !.pc = "p_count",
                                    !.mdocs[m].availableQuantity = left])
  /\ UNCHANGED <<orders, restaurant, nextId, stock0, reviews, calc, client>>

\* menuItem.orderCount += quantity; menuItem.save()
PlaceCountSave(r) ==
  /\ req[r].pc = "p_count"
  /\ LET item == req[r].items[req[r].idx]
         m == item.menuItem
         count == req[r].mdocs[m].orderCount + item.quantity
     IN /\ menu' = [menu EXCEPT ![m].orderCount = count]
        /\ SetReq(r, PlaceItem([req[r] EXCEPT !.mdocs[m].orderCount = count],
                               req[r].idx + 1))
  /\ UNCHANGED <<orders, restaurant, nextId, stock0, reviews, calc, client>>

\* restaurant.totalOrders += 1; totalRevenue += total; restaurant.save()
PlaceRestaurantSave(r) ==
  /\ req[r].pc = "p_rest"
  /\ LET d == req[r].doc
         a == d.subtotal + d.deliveryFee + d.tax - d.discount
     IN restaurant' = [restaurant EXCEPT
                         !.totalOrders = req[r].rdoc.totalOrders + 1,
                         !.totalRevenue =
                            PlusTotal(req[r].rdoc.totalRevenue, a, req[r].tip)]
  /\ SetReq(r, [req[r] EXCEPT !.pc = "p_respond"])
  /\ UNCHANGED <<orders, menu, nextId, stock0, reviews, calc, client>>

\* order.populate resolves; emit 'new-order'; res.status(201)
PlaceRespond(r, pub) ==
  /\ req[r].pc = "p_respond"
  /\ Publish(r, "new-order", pub)
  /\ UNCHANGED <<orders, menu, restaurant, nextId, stock0, reviews, calc, client>>

\* The response has been delivered; the slot serves the next request.
Finish(r) ==
  /\ req[r].pc = "done"
  /\ SetReq(r, IdleReq)
  /\ UNCHANGED <<orders, menu, restaurant, nextId, stock0, reviews, calc, client>>

\* ------------------------------------------------------------ specification
OrderIds == 1..MaxOrders

\* A response is delivered before anything else happens: a finished handler
\* has no further effect, so when its slot is released is immaterial.
NoneDone == \A q \in Reqs : req[q].pc # "done"

\* Slots are interchangeable: a new request takes the lowest free one.
LowestFree(r) == \A q \in Reqs : q < r => req[q].pc # "idle"

Alone(r) == \A q \in Reqs \ {r} : ~InFlight(q)

\* A handler in progress goes on.
Run(r) == NoneDone /\ burst' = burst

\* Admission of a new request when requests interleave at their awaits: a
\* behaviour is a run of requests served one at a time (on at most
\* MaxWarmOrders orders), then at most MaxBurst requests that start while
\* another is in progress or after such an overlap has happened.
Start(r, op) ==
  /\ NoneDone
  /\ LowestFree(r)
  /\ IF burst = 0 /\ Alone(r)
       THEN /\ op = "place" =>
                 nextId < MaxWarmOrders /\ restaurant.totalRevenue <= MaxRevenue
            /\ burst' = burst
       ELSE /\ burst < MaxBurst
            /\ op = "place" =>
                 /\ nextId + Cardinality(Placing) < MaxOrders
                 /\ restaurant.totalRevenue <= MaxRevenue
            /\ burst' = burst + 1

\* Admission of a new request when requests are served one at a time.
SeqStart(r, op) ==
  /\ NoneDone
  /\ LowestFree(r)
  /\ Alone(r)
  /\ op = "place" => nextId < MaxWarmOrders /\ restaurant.totalRevenue <= MaxRevenue
  /\ burst' = burst

Next ==
  \E r \in Reqs :
    \/ \E items \in ItemLists, method \in PaymentMethods, tip \in {NoTip} :
         Start(r, "place") /\ PlaceFindRestaurant(r, items, method, tip)
    \/ \E clock \in Clocks, saveOrder_ \in SaveOrders :
         Run(r) /\ PlaceFindMenu(r, clock, saveOrder_)
    \/ \E now \in Timestamps : Run(r) /\ PlaceNumber(r, now)
    \/ Run(r) /\ PlaceCreate(r)
    \/ Run(r) /\ PlacePaymentSuccess(r)
    \/ Run(r) /\ PlacePaymentFailure(r)
    \/ Run(r) /\ PlaceStockSave(r)
    \/ Run(r) /\ PlaceCountSave(r)
    \/ Run(r) /\ PlaceRestaurantSave(r)
    \/ \E pub \in Publications : Run(r) /\ PlaceRespond(r, pub)
    \/ \E user \in Users, oid \in OrderIds, target \in UpdateTargets :
         Start(r, "update") /\ UpdateLoad(r, user, oid, target)
    \/ Run(r) /\ UpdateSave(r)
    \/ \E pub \in Publications : Run(r) /\ UpdateRespond(r, pub)
    \/ \E user \in Users, oid \in OrderIds :
         Start(r, "cancel") /\ CancelLoad(r, user, oid)
    \/ Run(r) /\ CancelSave(r)
    \/ Run(r) /\ CancelRestoreFind(r)
    \/ Run(r) /\ CancelRestoreSave(r)
    \/ \E pub \in Publications : Run(r) /\ CancelRespond(r, pub)
    \/ Finish(r) /\ burst' = burst

Spec == Init /\ [][Next]_vars

\* The interleaved order routes in a deployment whose emit always returns.
EventNext ==
  \E r \in Reqs :
    \/ \E items \in ItemLists, method \in PaymentMethods, tip \in {NoTip} :
         Start(r, "place") /\ PlaceFindRestaurant(r, items, method, tip)
    \/ \E clock \in Clocks, saveOrder_ \in SaveOrders :
         Run(r) /\ PlaceFindMenu(r, clock, saveOrder_)
    \/ \E now \in Timestamps : Run(r) /\ PlaceNumber(r, now)
    \/ Run(r) /\ PlaceCreate(r)
    \/ Run(r) /\ PlacePaymentSuccess(r)
    \/ Run(r) /\ PlacePaymentFailure(r)
    \/ Run(r) /\ PlaceStockSave(r)
    \/ Run(r) /\ PlaceCountSave(r)
    \/ Run(r) /\ PlaceRestaurantSave(r)
    \/ \E pub \in {"sent"} : Run(r) /\ PlaceRespond(r, pub)
    \/ \E user \in Users, oid \in OrderIds, target \in UpdateTargets :
         Start(r, "update") /\ UpdateLoad(r, user, oid, target)
    \/ Run(r) /\ UpdateSave(r)
    \/ \E pub \in {"sent"} : Run(r) /\ UpdateRespond(r, pub)
    \/ \E user \in Users, oid \in OrderIds :
         Start(r, "cancel") /\ CancelLoad(r, user, oid)
    \/ Run(r) /\ CancelSave(r)
    \/ Run(r) /\ CancelRestoreFind(r)
    \/ Run(r) /\ CancelRestoreSave(r)
    \/ \E pub \in {"sent"} : Run(r) /\ CancelRespond(r, pub)
    \/ Finish(r) /\ burst' = burst

EventSpec == Init /\ [][EventNext]_vars

\* Placements and cancellations alone, interleaving at their awaits.
StockNext ==
  \E r \in Reqs :
    \/ \E items \in ItemLists, method \in PaymentMethods, tip \in {NoTip} :
         Start(r, "place") /\ PlaceFindRestaurant(r, items, method, tip)
    \/ \E clock \in Clocks, saveOrder_ \in SaveOrders :
         Run(r) /\ PlaceFindMenu(r, clock, saveOrder_)
    \/ \E now \in Timestamps : Run(r) /\ PlaceNumber(r, now)
    \/ Run(r) /\ PlaceCreate(r)
    \/ Run(r) /\ PlacePaymentSuccess(r)
    \/ Run(r) /\ PlacePaymentFailure(r)
    \/ Run(r) /\ PlaceStockSave(r)
    \/ Run(r) /\ PlaceCountSave(r)
    \/ Run(r) /\ PlaceRestaurantSave(r)
    \/ \E pub \in Publications : Run(r) /\ PlaceRespond(r, pub)
    \/ \E user \in Users, oid \in OrderIds :
         Start(r, "cancel") /\ CancelLoad(r, user, oid)
    \/ Run(r) /\ CancelSave(r)
    \/ Run(r) /\ CancelRestoreFind(r)
    \/ Run(r) /\ CancelRestoreSave(r)
    \/ \E pub \in Publications : Run(r) /\ CancelRespond(r, pub)
    \/ Finish(r) /\ burst' = burst

StockSpec == Init /\ [][StockNext]_vars

SeqNext ==
  \E r \in Reqs :
    \/ \E items \in SeqItemLists, method \in PaymentMethods, tip \in {NoTip} :
         SeqStart(r, "place") /\ PlaceFindRestaurant(r, items, method, tip)
    \/ \E clock \in Clocks, saveOrder_ \in SaveOrders :
         Run(r) /\ PlaceFindMenu(r, clock, saveOrder_)
    \/ \E now \in SeqTimestamps : Run(r) /\ PlaceNumber(r, now)
    \/ Run(r) /\ PlaceCreate(r)
    \/ Run(r) /\ PlacePaymentSuccess(r)
    \/ Run(r) /\ PlacePaymentFailure(r)
    \/ Run(r) /\ PlaceStockSave(r)
    \/ Run(r) /\ PlaceCountSave(r)
    \/ Run(r) /\ PlaceRestaurantSave(r)
    \/ \E pub \in Publications : Run(r) /\ PlaceRespond(r, pub)
    \/ \E user \in Users, oid \in OrderIds, target \in UpdateTargets :
         SeqStart(r, "update") /\ UpdateLoad(r, user, oid, target)
    \/ Run(r) /\ UpdateSave(r)
    \/ \E pub \in Publications : Run(r) /\ UpdateRespond(r, pub)
    \/ \E user \in Users, oid \in OrderIds :
         SeqStart(r, "cancel") /\ CancelLoad(r, user, oid)
    \/ Run(r) /\ CancelSave(r)
    \/ Run(r) /\ CancelRestoreFind(r)
    \/ Run(r) /\ CancelRestoreSave(r)
    \/ \E pub \in Publications : Run(r) /\ CancelRespond(r, pub)
    \/ Finish(r) /\ burst' = burst

SeqSpec == Init /\ [][SeqNext]_vars

\* Placements alone, one at a time, with every kind of tip a request body
\* can carry.
TipNext ==
  \E r \in Reqs :
    \/ \E items \in ItemLists, method \in PaymentMethods, tip \in Tips :
         SeqStart(r, "place") /\ PlaceFindRestaurant(r, items, method, tip)
    \/ \E clock \in Clocks, saveOrder_ \in SaveOrders :
         Run(r) /\ PlaceFindMenu(r, clock, saveOrder_)
    \/ \E now \in SeqTimestamps : Run(r) /\ PlaceNumber(r, now)
    \/ Run(r) /\ PlaceCreate(r)
    \/ Run(r) /\ PlacePaymentSuccess(r)
    \/ Run(r) /\ PlacePaymentFailure(r)
    \/ Run(r) /\ PlaceStockSave(r)
    \/ Run(r) /\ PlaceCountSave(r)
    \/ Run(r) /\ PlaceRestaurantSave(r)
    \/ \E pub \in Publications : Run(r) /\ PlaceRespond(r, pub)
    \/ Finish(r) /\ burst' = burst

TipSpec == Init /\ [][TipNext]_vars

\* The order routes together with the rating of orders and the editing of the
\* menu, one request at a time, from a database whose restaurant is active
\* and whose menu item is on offer without a quantity limit.
OpenInit ==
  /\ Init
  /\ restaurant.status = "active"
  /\ \A m \in MenuIds :
       /\ menu[m].status = "active" /\ menu[m].isAvailable
       /\ menu[m].availableQuantity = NULL
       /\ menu[m].price = 1000

AllSeqNext ==
  \E r \in Reqs :
    \/ \E items \in ItemLists, method \in PaymentMethods, tip \in {NoTip} :
         SeqStart(r, "place") /\ PlaceFindRestaurant(r, items, method, tip)
    \/ \E clock \in Clocks, saveOrder_ \in SaveOrders :
         Run(r) /\ PlaceFindMenu(r, clock, saveOrder_)
    \/ \E now \in SeqTimestamps : Run(r) /\ PlaceNumber(r, now)
    \/ Run(r) /\ PlaceCreate(r)
    \/ Run(r) /\ PlacePaymentSuccess(r)
    \/ Run(r) /\ PlacePaymentFailure(r)
    \/ Run(r) /\ PlaceStockSave(r)
    \/ Run(r) /\ PlaceCountSave(r)
    \/ Run(r) /\ PlaceRestaurantSave(r)
    \/ \E pub \in Publications : Run(r) /\ PlaceRespond(r, pub)
    \/ \E user \in Users, oid \in OrderIds, target \in UpdateTargets :
         SeqStart(r, "update") /\ UpdateLoad(r, user, oid, target)
    \/ Run(r) /\ UpdateSave(r)
    \/ \E pub \in Publications : Run(r) /\ UpdateRespond(r, pub)
    \/ \E user \in Users, oid \in OrderIds :
         SeqStart(r, "cancel") /\ CancelLoad(r, user, oid)
    \/ Run(r) /\ CancelSave(r)
    \/ Run(r) /\ CancelRestoreFind(r)
    \/ Run(r) /\ CancelRestoreSave(r)
    \/ \E pub \in Publications : Run(r) /\ CancelRespond(r, pub)
    \/ \E user \in Users, oid \in OrderIds, overall \in Ratings :
         SeqStart(r, "rate") /\ RateLoad(r, user, oid, overall)
    \/ Run(r) /\ RateSave(r)
    \/ Run(r) /\ RateReview(r)
    \/ \E user \in Users, m \in MenuIds, body \in MenuBodies :
         SeqStart(r, "menu") /\ MenuPutLoad(r, user, m, body)
    \/ Run(r) /\ MenuPutSave(r)
    \/ Finish(r) /\ burst' = burst

AllSeqSpec == OpenInit /\ [][AllSeqNext]_vars

\* An order as placement (one item, quantity 1, cash on delivery, no tip) and
\* the status updates up to delivered leave it.
DeliveredOrder ==
  [NoDoc EXCEPT
     !.orderNumber = <<0, 1>>, !.user = "customer", !.status = "delivered",
     !.statusHistory = <<[status |-> "pending"], [status |-> "confirmed"],
                         [status |-> "preparing"], [status |-> "ready_for_pickup"],
                         [status |-> "out_for_delivery"], [status |-> "delivered"]>>,
     !.items = <<[menuItem |-> "m1", name |-> "dish", price |-> 1000,
                  quantity |-> 1, itemTotal |-> 1000]>>,
     !.subtotal = 1000, !.tax = 80, !.total = 1080,
     !.method = "cash_on_delivery", !.payStatus = "pending",
     !.estimatedDeliveryTime =
        [at |-> "confirmed", ms |-> (prepTime + deliveryTime) * 60000]]

\* A database in which that order has been placed and delivered.
ReviewInit ==
  /\ orders = (1 :> DeliveredOrder)
  /\ menu = [m \in MenuIds |->
               [name |-> "dish", price |-> 1000, customizations |-> <<>>,
                addOns |-> <<>>, status |-> "active", isAvailable |-> TRUE,
                availableQuantity |-> NULL, orderCount |-> 1]]
  /\ stock0 = [m \in MenuIds |-> NULL]
  /\ restaurant = [status |-> "active", deliveryFee |-> 0, minimumOrder |-> 0,
                   totalOrders |-> 1, totalRevenue |-> 1080]
  /\ nextId = 1
  /\ reviews = <<>>
  /\ calc = NoCalc
  /\ req = [r \in Reqs |-> IdleReq]
  /\ burst = 0
  /\ ClientInit

\* Ratings and reviews of orders, interleaving at their awaits, while fewer
\* than MaxReviews reviews exist.
ReviewNext ==
  \E r \in Reqs :
    \/ \E user \in Users, oid \in OrderIds, overall \in Ratings :
         /\ Start(r, "rate") /\ Len(reviews) < MaxReviews
         /\ RateLoad(r, user, oid, overall)
    \/ Run(r) /\ RateSave(r)
    \/ Run(r) /\ RateReview(r)
    \/ \E user \in Users, oid \in OrderIds, overall \in Ratings :
         /\ Start(r, "review") /\ Len(reviews) < MaxReviews
         /\ ReviewLoad(r, user, oid, overall)
    \/ Run(r) /\ ReviewFindExisting(r)
    \/ Run(r) /\ ReviewCreate(r)
    \/ Finish(r) /\ burst' = burst

ReviewSpec == ReviewInit /\ [][ReviewNext]_vars

\* --------------------------------------------------------- helpful votes
\* The database after the customer has reviewed the delivered order.
HelpfulInit ==
  /\ orders = (1 :> DeliveredOrder)
  /\ menu = [m \in MenuIds |->
               [name |-> "dish", price |-> 1000, customizations |-> <<>>,
                addOns |-> <<>>, status |-> "active", isAvailable |-> TRUE,
                availableQuantity |-> NULL, orderCount |-> 1]]
  /\ stock0 = [m \in MenuIds |-> NULL]
  /\ restaurant = [status |-> "active", deliveryFee |-> 0, minimumOrder |-> 0,
                   totalOrders |-> 1, totalRevenue |-> 1080]
  /\ nextId = 1
  /\ reviews = <<newReview("customer", 1, 5)>>
  /\ calc = NoCalc
  /\ req = [r \in Reqs |-> IdleReq]
  /\ burst = 0
  /\ ClientInit

\* Helpful-vote requests of any user on any review id, interleaving at
\* their awaits, while the review's version is below MaxToggles.
HelpfulNext ==
  \E r \in Reqs :
    \/ \E user \in Users, rid \in 1..(MaxReviews) :
         /\ Start(r, "helpful")
         /\ \A i \in 1..Len(reviews) : reviews[i].v < MaxToggles
         /\ HelpfulLoad(r, user, rid)
    \/ Run(r) /\ HelpfulSave(r)
    \/ Finish(r) /\ burst' = burst

HelpfulSpec == HelpfulInit /\ [][HelpfulNext]_vars

\* ----------------------------------------------------- the cart's callbacks
\* What the browser's side leaves alone: the server.
server == <<orders, menu, restaurant, nextId, stock0, reviews, calc, req, burst>>

\* Date.now() is not below the ids already given to lines of the cart.
Clock(now) == \A i \in 1..Len(cart.items) : cart.items[i].id <= now

CartBounded ==
  /\ Len(cart.items) <= MaxCartLines
  /\ \A i \in 1..Len(cart.items) : cart.items[i].quantity <= MaxCartQuantity

\* addItem reads `state` of the render it was created in; its dispatches are
\* applied, in their order, to the reducer's state.
addItem(menuItem, quantity, confirmSwitch, now) ==
  LET other == /\ rendered.restaurant # NoCartRestaurant
               /\ rendered.restaurant._id # menuItem.restaurant._id
      prepared ==
        IF other
          THEN cartReducer(cartReducer(cart, [type |-> "CLEAR_CART"]),
                           [type |-> "SET_RESTAURANT",
                            payload |-> menuItem.restaurant])
          ELSE IF rendered.restaurant = NoCartRestaurant
                 THEN cartReducer(cart, [type |-> "SET_RESTAURANT",
                                         payload |-> menuItem.restaurant])
                 ELSE cart
      cartItem == [menuItem |-> menuItem, quantity |-> quantity,
                   price |-> menuItem.price]
  IN  /\ cart' = IF other /\ ~confirmSwitch
                   THEN cart
                   ELSE cartReducer(prepared, [type |-> "ADD_ITEM",
                                               payload |-> cartItem,
                                               now |-> now])
      /\ UNCHANGED <<rendered, auth, localStorage, calls, server>>

removeItem(itemId) ==
  /\ cart' = cartReducer(cart, [type |-> "REMOVE_ITEM", payload |-> itemId])
  /\ UNCHANGED <<rendered, auth, localStorage, calls, server>>

updateQuantity(itemId, quantity) ==
  /\ cart' = cartReducer(cart, [type |-> "UPDATE_QUANTITY",
                                payload |-> [itemId |-> itemId,
                                             quantity |-> quantity]])
  /\ UNCHANGED <<rendered, auth, localStorage, calls, server>>

clearCart ==
  /\ cart' = cartReducer(cart, [type |-> "CLEAR_CART"])
  /\ UNCHANGED <<rendered, auth, localStorage, calls, server>>

\* React renders CartProvider again: callbacks now close over the new state.
Render ==
  /\ rendered # cart
  /\ rendered' = cart
  /\ UNCHANGED <<cart, auth, localStorage, calls, server>>

\* The callbacks of the cart, called in any order, with or without a render
\* between two calls.
CartNext ==
  \/ \E menuItem \in CartMenuItems, quantity \in 1..MaxCartQuantity,
        confirmSwitch \in BOOLEAN, now \in 1..MaxNow :
       /\ Clock(now)
       /\ addItem(menuItem, quantity, confirmSwitch, now)
       /\ CartBounded'
  \/ \E itemId \in 1..MaxNow : removeItem(itemId)
  \/ \E itemId \in 1..MaxNow, quantity \in 0..MaxCartQuantity :
       updateQuantity(itemId, quantity)
  \/ clearCart
  \/ Render

CartSpec == OpenInit /\ [][CartNext]_vars

\* ------------------------------------------------- AuthProvider's functions
Dispatched(state, type, payload) ==
  authReducer(state, [type |-> type, payload |-> payload])

\* api.<method>(...): the request interceptor attaches the token that
\* localStorage holds when the request is sent.  `token` is the function's
\* own constant (checkAuth).
Send(f, token) ==
  calls' = [calls EXCEPT ![f] = [pc |-> "await", token |-> token,
                                 sent |-> localStorage]]

Return(f, pc) == calls' = [calls EXCEPT ![f] = [NoCall EXCEPT !.pc = pc]]

\* How an awaited request ends: response.success is true, response.success
\* is false, status 401 (the response interceptor removes the token and
\* rejects), any other rejection.  /auth/login and /auth/register take no
\* token; the other endpoints answer 401 to a request without one.
Answers(f, call) ==
  IF f \in {"login", "register"}
    THEN {"success", "failure", "throws"} \cup
         (IF f = "login" THEN {"unauthorized"} ELSE {})
    ELSE IF call.sent = NoToken THEN {"unauthorized"}
         ELSE {"success", "failure", "unauthorized", "throws"}

\* localStorage after the response interceptor has run.
Intercepted(answer) == IF answer = "unauthorized" THEN NoToken ELSE localStorage

\* ProtectedRoute renders its children (the pages that call updateProfile and
\* verifyPhoneOTP); PublicRoute renders its children (the login and register
\* pages).
ProtectedRoute == ~auth.isLoading /\ auth.user # NoUser
PublicRoute == ~auth.isLoading /\ auth.user = NoUser

\* checkAuth, up to its await.
checkAuth ==
  /\ calls["checkAuth"].pc = "idle"
  /\ LET token == localStorage
     IN  IF token = NoToken
           THEN /\ auth' = Dispatched(auth, "SET_LOADING", FALSE)
                /\ Return("checkAuth", "done")
           ELSE /\ Send("checkAuth", token)
                /\ auth' = auth
  /\ UNCHANGED <<localStorage, cart, rendered, server>>

\* authAPI.getProfile() settles.
checkAuthSettle(answer, user) ==
  /\ calls["checkAuth"].pc = "await"
  /\ answer \in Answers("checkAuth", calls["checkAuth"])
  /\ IF answer = "success"
       THEN /\ auth' = Dispatched(auth, "LOGIN_SUCCESS",
                                  [user |-> user,
                                   token |-> calls["checkAuth"].token])
            /\ localStorage' = localStorage
       ELSE /\ localStorage' = NoToken
            /\ auth' = Dispatched(auth, "LOGOUT", FALSE)
  /\ Return("checkAuth", "done")
  /\ UNCHANGED <<cart, rendered, server>>

\* login and register, up to their await.
loginOrRegister(f) ==
  /\ f \in {"login", "register"}
  /\ calls[f].pc = "idle"
  /\ PublicRoute
  /\ auth' = Dispatched(auth, "SET_LOADING", TRUE)
  /\ Send(f, NoToken)
  /\ UNCHANGED <<localStorage, cart, rendered, server>>

\* authAPI.login / authAPI.register settles; finally SET_LOADING false.
loginOrRegisterSettle(f, answer, user, token) ==
  /\ f \in {"login", "register"}
  /\ calls[f].pc = "await"
  /\ answer \in Answers(f, calls[f])
  /\ IF answer = "success"
       THEN /\ localStorage' = token
            /\ auth' = Dispatched(Dispatched(auth, "LOGIN_SUCCESS",
                                             [user |-> user, token |-> token]),
                                  "SET_LOADING", FALSE)
       ELSE /\ localStorage' = Intercepted(answer)
            /\ auth' = Dispatched(auth, "SET_LOADING", FALSE)
  /\ Return(f, "idle")
  /\ UNCHANGED <<cart, rendered, server>>

\* logout, up to its await.
logout ==
  /\ calls["logout"].pc = "idle"
  /\ Send("logout", NoToken)
  /\ UNCHANGED <<auth, localStorage, cart, rendered, server>>

\* authAPI.logout() settles, either way: finally removeItem, LOGOUT.
logoutSettle(answer) ==
  /\ calls["logout"].pc = "await"
  /\ answer \in Answers("logout", calls["logout"])
  /\ localStorage' = NoToken
  /\ auth' = Dispatched(auth, "LOGOUT", FALSE)
  /\ Return("logout", "idle")
  /\ UNCHANGED <<cart, rendered, server>>

\* updateProfile and verifyPhoneOTP, up to their await.
updateUser(f) ==
  /\ f \in {"updateProfile", "verifyPhoneOTP"}
  /\ calls[f].pc = "idle"
  /\ ProtectedRoute
  /\ Send(f, NoToken)
  /\ UNCHANGED <<auth, localStorage, cart, rendered, server>>

\* authAPI.updateProfile / authAPI.verifyPhoneOTP settles.
updateUserSettle(f, answer, user) ==
  /\ f \in {"updateProfile", "verifyPhoneOTP"}
  /\ calls[f].pc = "await"
  /\ answer \in Answers(f, calls[f])
  /\ auth' = IF answer = "success" THEN Dispatched(auth, "UPDATE_USER", user)
                                   ELSE auth
  /\ localStorage' = Intercepted(answer)
  /\ Return(f, "idle")
  /\ UNCHANGED <<cart, rendered, server>>

\* The page is loaded again (by the user, or by the response interceptor's
\* window.location.href = '/login'): the providers start from their initial
\* state, the calls in progress are dropped, localStorage stays.
Reload ==
  /\ calls["checkAuth"].pc = "done"
  /\ auth' = authInitialState(localStorage)
  /\ calls' = [f \in AuthFunctions |-> NoCall]
  /\ UNCHANGED <<localStorage, cart, rendered, server>>

\* The functions of AuthProvider called in any order, their requests settling
\* in any order.
AuthNext ==
  \/ checkAuth
  \/ \E answer \in {"success", "failure", "unauthorized", "throws"},
        user \in Profiles :
       checkAuthSettle(answer, user)
  \/ \E f \in {"login", "register"} : loginOrRegister(f)
  \/ \E f \in {"login", "register"},
        answer \in {"success", "failure", "unauthorized", "throws"},
        user \in Profiles, token \in Tokens :
       loginOrRegisterSettle(f, answer, user, token)
  \/ logout
  \/ \E answer \in {"success", "failure", "unauthorized", "throws"} :
       logoutSettle(answer)
  \/ \E f \in {"updateProfile", "verifyPhoneOTP"} : updateUser(f)
  \/ \E f \in {"updateProfile", "verifyPhoneOTP"},
        answer \in {"success", "failure", "unauthorized", "throws"},
        user \in Profiles :
       updateUserSettle(f, answer, user)
  \/ Reload

AuthSpec == OpenInit /\ [][AuthNext]_vars

\* ------------------------------------------------- calculatePrice alone
\* Menu items for the evaluations of calculatePrice: a base price, a
\* customization table with one configuration of two options or none, an
\* add-on table of one add-on or none.
PriceItems ==
  {[NoMenuDoc EXCEPT !.name = "dish", !.price = p, !.customizations = c,
                     !.addOns = a] :
     p \in {0, 1000},
     c \in {<<>>, <<[name |-> "size",
                    options |-> <<[name |-> "regular", price |-> 0],
                                  [name |-> "large", price |-> 200]>>]>>},
     a \in {<<>>, <<[name |-> "cheese", price |-> 100]>>}}

\* The customizations argument: none, a selection that is in the table, an
\* option the configuration has not, a configuration the item has not.
CustomizationSelections ==
  {<<>>,
   <<[name |-> "size", selectedOption |-> "large"]>>,
   <<[name |-> "size", selectedOption |-> "huge"]>>,
   <<[name |-> "crust", selectedOption |-> "large"]>>}

\* The quantities an add-on of the request body carries: the field left out,
\* 0, 1, 3.
AddOnQuantities ==
  {[hasQuantity |-> FALSE, quantity |-> 0], [hasQuantity |-> TRUE, quantity |-> 0],
   [hasQuantity |-> TRUE, quantity |-> 1], [hasQuantity |-> TRUE, quantity |-> 3]}

\* The addOns argument: none, one add-on that is or is not in the table.
AddOnSelections ==
  {<<>>} \cup
  {<<[name |-> n, hasQuantity |-> q.hasQuantity, quantity |-> q.quantity]>> :
     n \in {"cheese", "olives"}, q \in AddOnQuantities}

\* menuItem.calculatePrice(customizations, addOns) is evaluated.
CalcEvaluate ==
  /\ \E item \in PriceItems, customizations \in CustomizationSelections,
        addOns \in AddOnSelections :
       calc' = [item |-> item, customizations |-> customizations,
                addOns |-> addOns,
                result |-> calculatePrice(item, customizations, addOns)]
  /\ UNCHANGED <<orders, menu, restaurant, nextId, stock0, reviews, req, burst, client>>

PriceNext == CalcEvaluate

PriceSpec == OpenInit /\ [][PriceNext]_vars

\* ================================================================ claims
\* The transition graph of the specification, as pairs.
LegalEdges ==
  {<<"pending", "confirmed">>, <<"pending", "cancelled">>,
   <<"confirmed", "preparing">>, <<"confirmed", "cancelled">>,
   <<"preparing", "ready_for_pickup">>, <<"preparing", "cancelled">>,
   <<"ready_for_pickup", "out_for_delivery">>,
   <<"out_for_delivery", "delivered">>}

Last(h) == h[Len(h)]

\* Request r's step is the start of an authorized status update of an
\* existing order.
UpdateCall(r) ==
  /\ req[r].pc = "idle"
  /\ req'[r].op = "update"
  /\ req'[r].resp \notin {"NotFound", "Authorization"}

\* Request r's step is the write of a status update.
UpdateWrite(r) == req[r].pc = "u_save" /\ req'[r].pc = "u_respond"

\* C1: a status update changes the order's status only when the target is a
\* legal successor of the order's current status in the transition graph; for
\* every other target the request fails with Validation.
C1_UpdateOnlyAlongGraph ==
  [][\A r \in Reqs :
       /\ UpdateCall(r) =>
            IF <<orders[req'[r].oid].status, req'[r].target>> \in LegalEdges
              THEN req'[r].pc = "u_save"
              ELSE req'[r].pc = "done" /\ req'[r].resp = "Validation"
       /\ \A o \in DOMAIN orders :
            (req[r].op = "update" /\ o \in DOMAIN orders'
               /\ orders'[o].status # orders[o].status)
              => /\ req[r].oid = o
                 /\ orders'[o].status = req[r].target
                 /\ <<orders[o].status, orders'[o].status>> \in LegalEdges]_vars

C1_Witness ==
  \E r \in Reqs :
    /\ req[r].op = "update" /\ req[r].pc = "u_respond"
    /\ req[r].target = "delivered"
    /\ orders[req[r].oid].status = "delivered"

\* C2: for every illegal (current status, target) pair the status update fails
\* with Validation and leaves the order's status and status history (and every
\* other order) as they were.
C2_IllegalPairRejected ==
  [][\A r \in Reqs :
       (UpdateCall(r)
          /\ <<orders[req'[r].oid].status, req'[r].target>> \notin LegalEdges)
         => /\ req'[r].pc = "done"
            /\ req'[r].resp = "Validation"
            /\ orders' = orders]_vars

C2_Witness ==
  \E r \in Reqs :
    /\ req[r].op = "update" /\ req[r].pc = "done" /\ req[r].resp = "Validation"
    /\ req[r].target = "delivered"
    /\ orders[req[r].oid].status = "pending"
    /\ Len(orders[req[r].oid].statusHistory) = 1

\* C3: with the transitions applied one after another, every successful
\* transition makes the status history exactly one entry longer, and afterwards
\* the last entry's status is the order's current status (the target).
C3_HistoryGrowsByOne ==
  [][\A r \in Reqs :
       UpdateWrite(r) =>
         LET o == req[r].oid
         IN /\ Len(orders'[o].statusHistory) = Len(orders[o].statusHistory) + 1
            /\ Last(orders'[o].statusHistory).status = orders'[o].status
            /\ orders'[o].status = req[r].target
            /\ SubSeq(orders'[o].statusHistory, 1, Len(orders[o].statusHistory))
                 = orders[o].statusHistory]_vars

C3_Witness ==
  \E o \in DOMAIN orders :
    /\ orders[o].status = "delivered"
    /\ Len(orders[o].statusHistory) = 6
    /\ \A i \in 1..5 :
         <<orders[o].statusHistory[i].status,
           orders[o].statusHistory[i + 1].status>> \in LegalEdges

\* Request r's step is the start of an authorized cancellation of an existing
\* order.
CancelCall(r) ==
  /\ req[r].pc = "idle"
  /\ req'[r].op = "cancel"
  /\ req'[r].resp \notin {"NotFound", "Authorization"}

\* Request r's step is the write of a cancellation.
CancelWrite(r) == req[r].pc = "c_save" /\ req'[r].pc \in {"c_find", "c_respond"}

\* C4: cancel fails with Validation from out_for_delivery, delivered, cancelled
\* and refunded and leaves the orders alone; from pending, confirmed, preparing
\* and ready_for_pickup it goes through and sets the status to cancelled.
C4_CancelByStatus ==
  [][\A r \in Reqs :
       /\ CancelCall(r) =>
            LET st == orders[req'[r].oid].status
            IN /\ st \in {"out_for_delivery", "delivered", "cancelled", "refunded"}
                    => /\ req'[r].pc = "done" /\ req'[r].resp = "Validation"
                       /\ orders' = orders
               /\ st \in {"pending", "confirmed", "preparing", "ready_for_pickup"}
                    => req'[r].pc = "c_save"
       /\ CancelWrite(r) => orders'[req[r].oid].status = "cancelled"
       /\ ~canBeCancelled([status |-> "refunded"])]_vars

C4_Witness ==
  \E r \in Reqs :
    /\ req[r].op = "cancel" /\ req[r].pc = "done" /\ req[r].resp = "OK"
    /\ req[r].doc.status = "ready_for_pickup"
    /\ orders[req[r].oid].status = "cancelled"

\* The refund policy of the specification.
RefundPolicy(status, total) ==
  CASE status \in {"pending", "confirmed"} -> total
    [] status = "preparing"                -> (80 * total) \div 100
    [] status = "ready_for_pickup"         -> (50 * total) \div 100
    [] OTHER                               -> 0

\* C5: the refund amount a cancellation reports is the policy's amount for the
\* order's status when it is cancelled and its total: 100% for pending and
\* confirmed, 80% for preparing, 50% for ready_for_pickup, 0 for every other
\* status (a total of 100 gives 100, 100, 80, 50, 0).
C5_RefundTiers ==
  /\ \A r \in Reqs :
       /\ (req[r].op = "cancel" /\ req[r].pc = "c_save")
            => req[r].refund = RefundPolicy(orders[req[r].oid].status,
                                            orders[req[r].oid].total)
       /\ (req[r].op = "cancel" /\ req[r].pc = "done" /\ req[r].resp = "OK")
            => req[r].refund = RefundPolicy(req[r].doc.status, req[r].doc.total)
  /\ \A s \in Statuses, t \in {0, 100, 1080} :
       calculateRefundAmount([status |-> s, total |-> t]) = RefundPolicy(s, t)
  /\ <<calculateRefundAmount([status |-> "pending", total |-> 100]),
       calculateRefundAmount([status |-> "confirmed", total |-> 100]),
       calculateRefundAmount([status |-> "preparing", total |-> 100]),
       calculateRefundAmount([status |-> "ready_for_pickup", total |-> 100]),
       calculateRefundAmount([status |-> "out_for_delivery", total |-> 100])>>
       = <<100, 100, 80, 50, 0>>

C5_Witness ==
  \E r \in Reqs :
    /\ req[r].op = "cancel" /\ req[r].pc = "done" /\ req[r].resp = "OK"
    /\ req[r].doc.status = "preparing"
    /\ req[r].doc.total = 1080
    /\ req[r].refund = 864

\* C6: a successful cancellation marks the payment refunded and records the
\* refund amount exactly when the payment was completed before it and the
\* refund amount is greater than 0; otherwise the payment status and the
\* stored refund amount stay as they were.
C6_RefundOnlyCompleted ==
  [][\A r \in Reqs :
       CancelWrite(r) =>
         LET before == orders[req[r].oid]
             after == orders'[req[r].oid]
             amount == RefundPolicy(before.status, before.total)
         IN IF before.payStatus = "completed" /\ amount > 0
              THEN after.payStatus = "refunded" /\ after.refundAmount = amount
              ELSE /\ after.payStatus = before.payStatus
                   /\ after.refundAmount = before.refundAmount]_vars

C6_Witness ==
  \E o \in DOMAIN orders :
    /\ orders[o].status = "cancelled"
    /\ orders[o].payStatus = "refunded"
    /\ orders[o].refundAmount = 540

\* C7: when the gateway fails during a placement with a non-cash method, the
\* client gets the PaymentError and the order the request created is gone:
\* it is not in the store when the request completes, and no write of a
\* request that loaded it earlier brings it back.
C7_PaymentFailureDeletes ==
  /\ [](\A r \in Reqs :
          (req[r].op = "place" /\ req[r].pc = "done" /\ req[r].resp = "PaymentError")
            => /\ req[r].method # "cash_on_delivery"
               /\ req[r].oid \in 1..nextId
               /\ req[r].oid \notin DOMAIN orders)
  /\ [][/\ \A r \in Reqs :
            (req[r].op = "place" /\ req[r].pc = "p_pay" /\ req'[r].pc = "done")
              => req'[r].resp = "PaymentError"
        /\ \A o \in 1..nextId : o \notin DOMAIN orders => o \notin DOMAIN orders']_vars

\* The payment fails while another request that has loaded the order is
\* about to write it.
C7_Witness ==
  \E r \in Reqs, q \in Reqs :
    /\ req[r].op = "place" /\ req[r].pc = "done" /\ req[r].resp = "PaymentError"
    /\ req[q].pc \in {"u_save", "c_save"}
    /\ req[q].oid = req[r].oid

\* The placement in slot r has gone through: all its writes are done and its
\* response is, or is about to be, 201.
Placed(r) ==
  /\ req[r].op = "place"
  /\ \/ req[r].pc = "p_respond"
     \/ req[r].pc = "done" /\ req[r].resp = "OK"

NeverCancelled(o) ==
  \A i \in 1..Len(orders[o].statusHistory) :
    orders[o].statusHistory[i].status # "cancelled"

\* C8: of two concurrent placements, each of quantity 1 of the same menu item
\* whose availableQuantity is 1, not both succeed.
C8_NoOversell ==
  \A m \in MenuIds :
    stock0[m] = 1 =>
      ~ \E r1 \in Reqs, r2 \in Reqs :
          /\ r1 # r2
          /\ Placed(r1) /\ Placed(r2)
          /\ req[r1].items = <<[menuItem |-> m, quantity |-> 1]>>
          /\ req[r2].items = <<[menuItem |-> m, quantity |-> 1]>>
          /\ \A r \in {r1, r2} :
               req[r].oid \in DOMAIN orders /\ NeverCancelled(req[r].oid)

\* The status update in slot r has been written.
Applied(r) ==
  /\ req[r].op = "update"
  /\ \/ req[r].pc = "u_respond"
     \/ req[r].pc = "done" /\ req[r].resp = "OK"

\* C9: of two concurrent status updates of one order that were validated
\* against the same stored version of it (the same status history), at most
\* one is applied.
C9_OneMutationInFlight ==
  \A r1 \in Reqs, r2 \in Reqs :
    (r1 # r2 /\ Applied(r1) /\ Applied(r2) /\ req[r1].oid = req[r2].oid)
      => req[r1].doc.statusHistory # req[r2].doc.statusHistory

HasReached(o, statuses) ==
  \E i \in 1..Len(orders[o].statusHistory) :
    orders[o].statusHistory[i].status \in statuses

\* C10: an order that has reached out_for_delivery or delivered is never
\* cancelled afterwards, however cancel and status-update requests interleave.
C10_NoCancelAfterPickup ==
  \A o \in DOMAIN orders :
    HasReached(o, {"out_for_delivery", "delivered"})
      => orders[o].status # "cancelled"

\* The placement in slot r waits for the payment gateway's answer.
PaymentOutstanding(r) == req[r].op = "place" /\ req[r].pc = "p_pay"

\* C11: while the payment of a newly created order is outstanding (the order
\* is created, the gateway has not answered), no status update and no
\* cancellation is applied to that order: the stored order does not change.
C11_NoTransitionWhilePaying ==
  [][\A r \in Reqs :
       (PaymentOutstanding(r) /\ req'[r].pc = "p_pay"
          /\ req[r].oid \in DOMAIN orders)
         => /\ req[r].oid \in DOMAIN orders'
            /\ orders'[req[r].oid] = orders[req[r].oid]]_vars

\* Request r's step is the start of a rating, by its owner, of an existing
\* order.
RateCall(r) ==
  /\ req[r].pc = "idle"
  /\ req'[r].op = "rate"
  /\ req'[r].resp \notin {"NotFound", "Authorization"}

\* C12: the rate operation goes through only when the order is delivered and
\* has no rating; otherwise (an already rated order included) it fails with
\* Validation and writes nothing; a rating, once set, never changes.
C12_RateOnce ==
  [][/\ \A r \in Reqs :
          RateCall(r) =>
            LET order == orders[req'[r].oid]
            IN IF order.status = "delivered" /\ order.rating = 0
                 THEN req'[r].pc = "r_save"
                 ELSE /\ req'[r].pc = "done" /\ req'[r].resp = "Validation"
                      /\ orders' = orders
     /\ \A o \in DOMAIN orders :
          orders[o].rating # 0
            => o \in DOMAIN orders' /\ orders'[o].rating = orders[o].rating
     /\ \A o \in DOMAIN orders' :
          (o \in DOMAIN orders /\ orders'[o].rating # orders[o].rating)
            => orders[o].status = "delivered"]_vars

\* A second rating, with another value, of a rated order was refused.
C12_Witness ==
  \E r \in Reqs :
    /\ req[r].op = "rate" /\ req[r].pc = "done" /\ req[r].resp = "Validation"
    /\ req[r].doc.status = "delivered"
    /\ req[r].doc.rating # 0
    /\ req[r].rating # req[r].doc.rating
    /\ orders[req[r].oid].rating = req[r].doc.rating

\* C13: a cash-on-delivery placement never reaches the payment gateway, and
\* a cash-on-delivery order has payment status pending from its creation
\* through every later status.
C13_CashOnDeliveryPending ==
  /\ \A r \in Reqs :
       (req[r].op = "place" /\ req[r].method = "cash_on_delivery")
         => req[r].pc # "p_pay"
  /\ \A o \in DOMAIN orders :
       orders[o].method = "cash_on_delivery" => orders[o].payStatus = "pending"

\* A cash-on-delivery order was taken through to delivery.
C13_Witness ==
  \E o \in DOMAIN orders :
    /\ orders[o].method = "cash_on_delivery"
    /\ orders[o].status = "delivered"
    /\ orders[o].payStatus = "pending"

RECURSIVE SumPriceTimesQuantity(_, _)
SumPriceTimesQuantity(its, i) ==
  IF i > Len(its) THEN 0
  ELSE its[i].price * its[i].quantity + SumPriceTimesQuantity(its, i + 1)

\* C14: every order that exists has total = subtotal + deliveryFee + tax -
\* discount + tip, with tax 8% of the subtotal, the subtotal the sum of unit
\* price times quantity over the lines, and none of the six negative.
C14_TotalIsSum ==
  \A o \in DOMAIN orders :
    LET d == orders[o]
    IN /\ d.total = d.subtotal + d.deliveryFee + d.tax - d.discount + d.tip
       /\ d.tax = Tax(d.subtotal)
       /\ d.subtotal = SumPriceTimesQuantity(d.items, 1)
       /\ d.subtotal >= 0 /\ d.deliveryFee >= 0 /\ d.tax >= 0
       /\ d.discount >= 0 /\ d.tip >= 0 /\ d.total >= 0

\* The price of the selected option when the selection names a configuration
\* and an option of the item's table, 0 when it matches nothing.
MatchedOptionPrice(item, selection) ==
  LET cs == {c \in 1..Len(item.customizations) :
               item.customizations[c].name = selection.name}
  IN IF cs = {} THEN 0
     ELSE LET c == CHOOSE c \in cs : \A d \in cs : c <= d
              os == {o \in 1..Len(item.customizations[c].options) :
                       item.customizations[c].options[o].name
                         = selection.selectedOption}
          IN IF os = {} THEN 0
             ELSE item.customizations[c].options[
                    CHOOSE o \in os : \A u \in os : o <= u].price

\* The add-on's price times its quantity (1 when the selection carries none)
\* when the selection names an add-on of the item's table, 0 otherwise.
MatchedAddOnPrice(item, addOn) ==
  LET as == {a \in 1..Len(item.addOns) : item.addOns[a].name = addOn.name}
  IN IF as = {} THEN 0
     ELSE item.addOns[CHOOSE a \in as : \A b \in as : a <= b].price
            * (IF addOn.hasQuantity THEN addOn.quantity ELSE 1)

RECURSIVE SumOver(_, _, _, _)
SumOver(Price(_, _), item, selections, i) ==
  IF i > Len(selections) THEN 0
  ELSE Price(item, selections[i]) + SumOver(Price, item, selections, i + 1)

\* C15: the unit price is the base price plus the price of every selected
\* option that is in the item's customization table plus, for every selected
\* add-on that is in the add-on table, its price times its quantity; what
\* matches nothing adds 0.
C15_UnitPrice ==
  calc # NoCalc =>
    calc.result = calc.item.price
                    + SumOver(MatchedOptionPrice, calc.item, calc.customizations, 1)
                    + SumOver(MatchedAddOnPrice, calc.item, calc.addOns, 1)

\* What an order records of its pricing at creation.
Priced(order) ==
  <<order.items, order.subtotal, order.deliveryFee, order.tax, order.discount,
    order.tip, order.total>>

\* C16: the line items of an order (menu item, name and unit price snapshots,
\* quantity, item total) and its total are the same after every step as
\* before it, whatever is done to the order or to the menu.
C16_SnapshotsFrozen ==
  [][\A o \in DOMAIN orders :
       o \in DOMAIN orders' => Priced(orders'[o]) = Priced(orders[o])]_vars

\* The menu item of a delivered order's line has since been given another
\* price.
C16_Witness ==
  \E o \in DOMAIN orders :
    /\ orders[o].status = "delivered"
    /\ orders[o].items[1].price = 1000
    /\ orders[o].total = 1080
    /\ menu[orders[o].items[1].menuItem].price = 0

\* A line of the request fails one of the checks on the menu as it is: the
\* item is not an active item of the restaurant, is switched off, or has
\* fewer in stock than the line asks for.
FailsCheck(line) ==
  \/ line.menuItem \notin MenuIds
  \/ menu[line.menuItem].status # "active"
  \/ ~menu[line.menuItem].isAvailable
  \/ /\ menu[line.menuItem].availableQuantity # NULL
     /\ menu[line.menuItem].availableQuantity < line.quantity

\* C17: a placement whose items are looked up and checked while one of them
\* fails a check is answered with Validation, and no order is created.
C17_FailedCheckIsValidation ==
  [][\A r \in Reqs :
       (/\ req[r].op = "place" /\ req[r].pc = "p_menu" /\ req'[r].pc # "p_menu"
        /\ \E i \in 1..Len(req[r].items) : FailsCheck(req[r].items[i]))
         => /\ req'[r].pc = "done" /\ req'[r].resp = "Validation"
            /\ orders' = orders]_vars

PlaceFailures == {"NotFound", "Validation", "PaymentError"}

Without(os, oid) == [o \in DOMAIN os \ {oid} |-> os[o]]

PublishStep(r) ==
  /\ req[r].pc \in {"p_respond", "u_respond", "c_respond"}
  /\ req'[r].pc = "done"

\* C19: whatever becomes of the publication that follows a committed
\* creation, status change or cancellation, the committed state stays and
\* the operation answers its caller with success.
C19_PublishFailureTolerated ==
  [][\A r \in Reqs :
       PublishStep(r) =>
         /\ orders' = orders /\ menu' = menu /\ restaurant' = restaurant
         /\ req'[r].resp = "OK"]_vars

\* C20: no two orders in the store have the same order number.
C20_OrderNumbersDistinct ==
  \A o1 \in DOMAIN orders, o2 \in DOMAIN orders :
    o1 # o2 => orders[o1].orderNumber # orders[o2].orderNumber

\* A placement made the order number that an order in the store has (same
\* clock value, same count), and its insert was refused.
C20_Witness ==
  \E r \in Reqs :
    /\ req[r].op = "place" /\ req[r].pc = "done" /\ req[r].resp = "Validation"
    /\ req[r].doc.orderNumber # <<>>
    /\ \E o \in DOMAIN orders : orders[o].orderNumber = req[r].doc.orderNumber

IsPrefix(s, t) == Len(s) <= Len(t) /\ SubSeq(t, 1, Len(s)) = s

\* C21: the status history of an order is append-only: over every step the
\* history before is a prefix of the history after.
C21_HistoryAppendOnly ==
  [][\A o \in DOMAIN orders :
       o \in DOMAIN orders'
         => IsPrefix(orders[o].statusHistory, orders'[o].statusHistory)]_vars

\* An order with a history of placement, four status updates and delivery
\* has been rated.
C21_Witness ==
  \E o \in DOMAIN orders :
    /\ orders[o].rating # 0
    /\ Len(orders[o].statusHistory) >= 6
    /\ orders[o].statusHistory[1].status = "pending"
    /\ orders[o].statusHistory[Len(orders[o].statusHistory)].status = "delivered"

Terminal == {"delivered", "cancelled"}

\* C22: delivered and cancelled are terminal: an order that has one of them
\* as its status keeps it over every step of every later request.
C22_TerminalStatuses ==
  [][\A o \in DOMAIN orders :
       orders[o].status \in Terminal
         => o \in DOMAIN orders' /\ orders'[o].status = orders[o].status]_vars

\* A cancel or a status update of a delivered or cancelled order was
\* refused.
C22_Witness ==
  \E r \in Reqs :
    /\ req[r].pc = "done" /\ req[r].resp = "Validation"
    /\ req[r].op \in {"cancel", "update"}
    /\ req[r].oid \in DOMAIN orders
    /\ req[r].doc.status \in Terminal
    /\ orders[req[r].oid].status = req[r].doc.status

\* The requests on order o that have saved their change of o and have not
\* yet published its event.
PendingPublish(o) ==
  {q \in Reqs : /\ req[q].oid = o
                /\ req[q].pc \in {"u_respond", "c_find", "c_restore", "c_respond"}}

\* C23: the events of an order are published in the order in which the
\* changes they report were committed: when the new-order event of an order
\* is published, every later change committed to the order (a history entry
\* after the first) still has its event to come.
C23_EventsInCommitOrder ==
  [][\A r \in Reqs :
       (/\ req[r].op = "place" /\ req[r].pc = "p_respond"
        /\ req'[r].pc = "done" /\ req'[r].event = "new-order"
        /\ req[r].oid \in DOMAIN orders)
         => Len(orders[req[r].oid].statusHistory) - 1
              <= Cardinality(PendingPublish(req[r].oid))]_vars

\* C24: a transition into confirmed sets estimatedDeliveryTime to the time
\* of the transition plus 50 minutes, in place of the time of placement plus
\* 45 minutes that the order was created with; no other step changes it.
C24_EstimatedDeliveryTime ==
  [][\A o \in DOMAIN orders' :
       IF o \notin DOMAIN orders
         THEN orders'[o].estimatedDeliveryTime
                = [at |-> "placement", ms |-> 45 * 60 * 1000]
         ELSE IF orders'[o].status = "confirmed" /\ orders[o].status # "confirmed"
           THEN orders'[o].estimatedDeliveryTime
                  = [at |-> "confirmed", ms |-> 50 * 60 * 1000]
           ELSE orders'[o].estimatedDeliveryTime
                  = orders[o].estimatedDeliveryTime]_vars

\* A delivered order carries the time set when it was confirmed.
C24_Witness ==
  \E o \in DOMAIN orders :
    /\ orders[o].status = "delivered"
    /\ orders[o].estimatedDeliveryTime = [at |-> "confirmed", ms |-> 3000000]

\* Request r's step is the save of a cancellation of order o.
CancelSaveOf(r, o) ==
  req[r].op = "cancel" /\ req[r].pc = "c_save" /\ req'[r].pc # "c_save"
    /\ req[r].oid = o

\* C25: no order ever has the status refunded, a status update to refunded
\* included; a payment status becomes refunded only in the save of a
\* cancellation of an order whose payment status is completed.
C25_RefundedOnlyByCancel ==
  [][\A o \in DOMAIN orders' :
       /\ orders'[o].status # "refunded"
       /\ (orders'[o].payStatus = "refunded"
             /\ (o \in DOMAIN orders => orders[o].payStatus # "refunded"))
            => /\ o \in DOMAIN orders
               /\ orders[o].payStatus = "completed"
               /\ \E r \in Reqs : CancelSaveOf(r, o) /\ req[r].doc.payStatus = "completed"
       /\ \A r \in Reqs :
            (req'[r].op = "update" /\ req'[r].pc = "u_save")
              => req'[r].target # "refunded"]_vars

\* A paid order was cancelled while another request was in progress, and
\* its payment is refunded.
C25_Witness ==
  \E o \in DOMAIN orders :
    /\ orders[o].status = "cancelled"
    /\ orders[o].payStatus = "refunded"
    /\ orders[o].refundAmount > 0
    /\ burst > 0

\* The quantity of menu item m on the lines of an order, from line i on.
RECURSIVE QuantityOf(_, _, _)
QuantityOf(m, its, i) ==
  IF i > Len(its) THEN 0
  ELSE (IF its[i].menuItem = m THEN its[i].quantity ELSE 0) + QuantityOf(m, its, i + 1)

\* The quantity of m in the orders os that are not cancelled.
RECURSIVE Committed(_, _)
Committed(m, os) ==
  IF os = {} THEN 0
  ELSE LET o == CHOOSE x \in os : TRUE
       IN (IF orders[o].status # "cancelled"
             THEN QuantityOf(m, orders[o].items, 1) ELSE 0)
            + Committed(m, os \ {o})

Quiescent == \A r \in Reqs : req[r].pc = "idle"

\* C26: whenever no request is in progress, a menu item with a finite stock
\* has a non-negative availableQuantity equal to its initial quantity minus
\* the quantities of the item in the orders that are not cancelled.
C26_StockConservation ==
  Quiescent =>
    \A m \in MenuIds :
      stock0[m] # NULL =>
        /\ menu[m].availableQuantity >= 0
        /\ menu[m].availableQuantity = stock0[m] - Committed(m, DOMAIN orders)

\* C27: at most one review exists for a (user, order) pair.
C27_OneReviewPerOrder ==
  \A i \in 1..Len(reviews), j \in 1..Len(reviews) :
    i # j => <<reviews[i].user, reviews[i].order>>
               # <<reviews[j].user, reviews[j].order>>


\* C28: in the client cart, after any calls of addItem, removeItem,
\* updateQuantity and clearCart, with or without a render between them, every
\* item of the cart is of the restaurant stored as the cart's restaurant.
C28_CartOfOneRestaurant ==
  \A i \in 1..Len(cart.items) :
     cart.items[i].menuItem.restaurant._id = cart.restaurant._id

\* C29: in the client's auth state isAuthenticated is true exactly when user
\* is not null, whatever the order in which the auth check on load, login,
\* register, logout, updateProfile and verifyPhoneOTP run and their responses
\* arrive; and user changes from null to a user only by a LOGIN_SUCCESS
\* (which sets isAuthenticated).
C29_AuthenticatedIffUser ==
  /\ [](auth.isAuthenticated <=> auth.user # NoUser)
  /\ [][auth.user = NoUser /\ auth'.user # NoUser => auth'.isAuthenticated]_vars

\* C30: for every review, after helpful-vote requests in any order and
\* interleaving, helpfulVotes.count is the number of entries of
\* helpfulVotes.users and no user is in that list twice.
C30_HelpfulVotesConsistent ==
  \A i \in 1..Len(reviews) :
     LET users == reviews[i].helpfulVotes.users
     IN  /\ reviews[i].helpfulVotes.count = Len(users)
         /\ \A j, k \in 1..Len(users) : j # k => users[j] # users[k]

====
